---- MODULE Spec2Model ----
(***************************************************************************)
(* Entity Memory engine of the gateway (DatabaseEntityMemoryProvider):     *)
(* the versioned profile store, the episode log, the concern tracker, the  *)
(* MEMORY.md compiler and the transactional ingest orchestrator, together  *)
(* with the part of the MySQL/InnoDB store they rely on (row locks,        *)
(* transactions, deadlock detection, AUTO_INCREMENT counters).             *)
(***************************************************************************)
EXTENDS Integers, Sequences, FiniteSets, TLC

\* ------------------------------------------------------------------------
\* Bounds of the model
\* ------------------------------------------------------------------------

\* Environment faults (errors raised by the store for reasons outside the
\* model: other clients, the network) injected in one behaviour.
MaxFaults == 2

\* Largest expectedVersion a caller of upsertProfile passes.
MaxExpected == 2

\* Calls the callers start one after the other in one behaviour.
MaxCalls == 3

\* The longest list of facts handed to mergeMedicalFacts
MaxFacts == 2

\* The longest episode content the compiler is given
MaxContent == 150

\* ------------------------------------------------------------------------
\* Program constants
\* ------------------------------------------------------------------------

\* truncate(e.content, 100) in assembleMemoryMarkdown
TruncateMax == 100

\* LIMIT of the render's episode query
RenderLimit == 10

\* errno of ER_LOCK_DEADLOCK, the only error ingest retries
ErDeadlock == 1213

\* errno of ER_LOCK_WAIT_TIMEOUT: MySQL numbers it eight below ER_LOCK_DEADLOCK;
\* the program never names it
ErLockWait == ErDeadlock - 8

\* errno of ER_DUP_ENTRY (the non-deadlock error of the test-suite)
ErDupEntry == 1062

\* connectionLimit default of createDbPool
ConnectionLimit == 10

\* ------------------------------------------------------------------------
\* JSON values
\* ------------------------------------------------------------------------

\* A profile document is a function from some top-level keys to values.
\* The value of an array key is a sequence of entries, the value of an
\* object key is a function from field names to scalars.
ArrayKeys == {"medical_facts", "next_actions"}
ObjectKeys == {"baby_snapshot", "feeding_profile"}

\* JSON null, as a scalar inside an object
JNull == "null"

\* Absent property of a fact entry (undefined)
Undef == "undefined"

EmptyDoc == [k \in {} |-> <<>>]

\* { fact: f }
Fact(f) == [fact |-> f, text |-> Undef]

\* nf.fact ?? nf.text ?? ""
FactText(nf) ==
  IF nf.fact \notin {Undef, JNull} THEN nf.fact
  ELSE IF nf.text \notin {Undef, JNull} THEN nf.text
  ELSE ""

RECURSIVE MergeLoop(_, _)
MergeLoop(merged, incoming) ==
  IF incoming = <<>> THEN merged
  ELSE LET nf == Head(incoming)
           factText == FactText(nf)
           exists == \E i \in 1..Len(merged) : FactText(merged[i]) = factText
       IN IF factText = "" THEN MergeLoop(merged, Tail(incoming))
          ELSE IF ~exists THEN MergeLoop(Append(merged, nf), Tail(incoming))
          ELSE MergeLoop(merged, Tail(incoming))

\* A variant that stops after the first entry it appends
mergeFirstUnseen(existing, incoming) ==
  LET merged == MergeLoop(existing, incoming)
  IN IF Len(merged) > Len(existing) THEN SubSeq(merged, 1, Len(existing) + 1) ELSE merged

\* A variant that appends every incoming entry
mergeWithoutDedup(existing, incoming) == existing \o incoming

mergeMedicalFacts(existing, incoming) == MergeLoop(existing, incoming)

\* JSON_MERGE_PATCH of two objects of scalars: a null member of the patch
\* removes the member, any other member replaces it.
MergeObject(doc, patch) ==
  LET keep == (DOMAIN doc \ DOMAIN patch) \cup {k \in DOMAIN patch : patch[k] # JNull}
  IN [k \in keep |-> IF k \in DOMAIN patch THEN patch[k] ELSE doc[k]]

\* A variant that replaces every member named in the patch as a whole
ShallowPatch(doc, patch) ==
  [k \in DOMAIN doc \cup DOMAIN patch |-> IF k \in DOMAIN patch THEN patch[k] ELSE doc[k]]

\* JSON_MERGE_PATCH(profile_data, ?) (RFC 7396): members that are objects on
\* both sides are merged member by member, everything else is replaced.
JsonMergePatch(doc, patch) ==
  [k \in DOMAIN doc \cup DOMAIN patch |->
     IF k \notin DOMAIN patch THEN doc[k]
     ELSE IF k \in ObjectKeys /\ k \in DOMAIN doc THEN MergeObject(doc[k], patch[k])
     ELSE IF k \in ObjectKeys THEN MergeObject([f \in {} |-> ""], patch[k])
     ELSE patch[k]]

\* ------------------------------------------------------------------------
\* MEMORY.md compiler
\* ------------------------------------------------------------------------

\* A variant that also cuts a string of exactly max characters
truncateFromMax(s, max) ==
  IF Len(s) >= max THEN SubSeq(s, 1, max) \o <<".", ".", ".">> ELSE s

\* s.length > max ? s.slice(0, max) + "..." : s   (strings are sequences of
\* characters)
truncate(s, max) ==
  IF Len(s) > max THEN SubSeq(s, 1, max) \o <<".", ".", ".">> ELSE s

\* obj.fact ?? obj.text ?? JSON.stringify(f)
formatFact(f) ==
  IF f.fact \notin {Undef, JNull} THEN f.fact
  ELSE IF f.text \notin {Undef, JNull} THEN f.text
  ELSE "{}"

NoContent == [exists |-> FALSE]

\* The lines of one array section; the section is absent when the array is
\* missing or empty.
ArraySection(data, k) ==
  IF k \in DOMAIN data /\ Len(data[k]) > 0
  THEN [present |-> TRUE, lines |-> [i \in 1..Len(data[k]) |-> formatFact(data[k][i])]]
  ELSE [present |-> FALSE, lines |-> <<>>]

\* The lines of one object section: the heading is written whenever the
\* member is an object, a line only for a value that is not null or "".
ObjectSection(data, k) ==
  IF k \in DOMAIN data
  THEN [present |-> TRUE,
        lines |-> {<<f, data[k][f]>> : f \in {g \in DOMAIN data[k] : data[k][g] \notin {JNull, ""}}}]
  ELSE [present |-> FALSE, lines |-> {}]

\* assembleMemoryMarkdown(profile, concerns, episodes); profile is a row
\* ([exists |-> FALSE] for null), concerns and episodes are sequences.
assembleMemoryMarkdown(profile, concernRows, episodeRows) ==
  IF ~profile.exists /\ Len(concernRows) = 0 /\ Len(episodeRows) = 0
  THEN NoContent
  ELSE LET data == IF profile.exists THEN profile.data ELSE EmptyDoc IN
       [exists |-> TRUE,
        medical_facts |-> ArraySection(data, "medical_facts"),
        baby_snapshot |-> ObjectSection(data, "baby_snapshot"),
        feeding_profile |-> ObjectSection(data, "feeding_profile"),
        next_actions |-> ArraySection(data, "next_actions"),
        concerns |-> [i \in 1..Len(concernRows) |->
                        [marker |-> concernRows[i].severity \in {"critical", "high"},
                         displayName |-> concernRows[i].displayName,
                         severity |-> concernRows[i].severity,
                         mentionCount |-> concernRows[i].mentionCount]],
        episodes |-> [i \in 1..Len(episodeRows) |->
                        [channel |-> episodeRows[i].channel,
                         text |-> truncate(episodeRows[i].content, TruncateMax)]]]

\* ------------------------------------------------------------------------
\* State
\* ------------------------------------------------------------------------

Tenants == {"t1", "t2"}
ConcernKeys == {"k1", "k2"}
CallIds == {"A", "B"}

VARIABLES
  profiles,   \* oc_memory_profiles, committed: tenant -> row
  episodes,   \* oc_memory_episodes, committed: set of rows
  concerns,   \* oc_memory_concerns, committed: tenant -> key -> row
  files,      \* tenant_bootstrap_files, MEMORY.md, committed: tenant -> row
  autoInc,    \* AUTO_INCREMENT counters of the episode and concern tables
  clock,      \* CURRENT_TIMESTAMP, advanced by the statements that store it
  txs,        \* the open transaction of each call: its locks and its writes
  calls,      \* the frame of each call: position, locals, outcome
  pool,       \* connections of the pool that are in use
  gapLocks,   \* TRUE: the store runs at REPEATABLE READ (gap locks)
  faults,     \* environment faults injected so far
  start       \* the committed tables and counters when the calls began

vars == <<profiles, episodes, concerns, files, autoInc, clock, txs, calls, pool,
          gapLocks, faults, start>>

config == <<gapLocks, start>>

store == <<profiles, episodes, concerns, files>>

NoRow == [exists |-> FALSE]
NoWrite == [written |-> FALSE]

\* A transaction that is not open / has just begun.  waiting: the session has
\* sent a statement that waits for a lock.
NoTx == [open |-> FALSE, waiting |-> FALSE, locks |-> {}, profile |-> NoWrite,
         episodes |-> {}, concerns |-> EmptyDoc, file |-> NoWrite]

ProfileLock(t) == <<"profile", t, "">>
GapLock(t) == <<"gap", t, "">>
ConcernLock(t, k) == <<"concern", t, k>>
FileLock(t) == <<"file", t, "">>

\* FIELD(severity, 'low','medium','high','critical')
SeverityField(s) ==
  CASE s = "low" -> 1 [] s = "medium" -> 2 [] s = "high" -> 3 [] s = "critical" -> 4
    [] OTHER -> 0

\* ------------------------------------------------------------------------
\* Errors
\* ------------------------------------------------------------------------

NoErr == [errno |-> 0, code |-> "", at |-> ""]
DeadlockErr(at) == [errno |-> ErDeadlock, code |-> "ER_LOCK_DEADLOCK", at |-> at]
LockWaitErr(at) == [errno |-> ErLockWait, code |-> "ER_LOCK_WAIT_TIMEOUT", at |-> at]
DupEntryErr(at) == [errno |-> ErDupEntry, code |-> "ER_DUP_ENTRY", at |-> at]
ConnLostErr(at) == [errno |-> 0, code |-> "PROTOCOL_CONNECTION_LOST", at |-> at]

\* A variant that also takes a lock-wait timeout for a deadlock
isDeadlockOrLockWait(err) ==
  err.errno \in {ErDeadlock, ErLockWait}
    \/ err.code \in {"ER_LOCK_DEADLOCK", "ER_LOCK_WAIT_TIMEOUT"}

\* errno === 1213 || code === "ER_LOCK_DEADLOCK"
isDeadlock(err) == err.errno = ErDeadlock \/ err.code = "ER_LOCK_DEADLOCK"

\* A variant that gives up on the first deadlock
shouldNeverRetry(err, retryCount) == FALSE

\* A variant that allows two retries
shouldRetryTwice(err, retryCount) == isDeadlock(err) /\ retryCount < 2

\* A variant that retries whatever the error is
shouldRetryAnyError(err, retryCount) == retryCount < 1

\* isDeadlock && retryCount < 1
shouldRetry(err, retryCount) == isDeadlock(err) /\ retryCount < 1

\* ------------------------------------------------------------------------
\* What a transaction reads
\* ------------------------------------------------------------------------

\* The profile row of tenant t as the statements of call c see it: the
\* call's own uncommitted write, otherwise the committed row.
ProfileSeen(c, t) ==
  IF txs[c].profile.written THEN txs[c].profile.row ELSE profiles[t]

ConcernSeen(c, t, k) ==
  IF k \in DOMAIN txs[c].concerns THEN txs[c].concerns[k] ELSE concerns[t][k]

\* A variant that reads the episodes on another connection of the pool
EpisodesCommitted(c, t) == {e \in episodes : e.tenantId = t}

EpisodesSeen(c, t) ==
  {e \in episodes \cup txs[c].episodes : e.tenantId = t}

\* A set of rows as the sequence ORDER BY ... DESC produces; rank[r] is the
\* sort key of row r.
RECURSIVE OrderByDesc(_, _)
OrderByDesc(rows, rank) ==
  IF rows = {} THEN <<>>
  ELSE LET first == CHOOSE r \in rows : \A q \in rows : rank[r] >= rank[q]
       IN <<first>> \o OrderByDesc(rows \ {first}, rank)

FirstN(s, n) == IF Len(s) > n THEN SubSeq(s, 1, n) ELSE s

\* A variant that selects the concerns whatever their status
AllConcernRows(rows) ==
  LET stored == {r \in rows : r.exists}
  IN OrderByDesc(stored, [r \in stored |-> SeverityField(r.severity) * 1000 + r.lastSeenAt])

\* WHERE status IN ('active','improving','escalated')
\* ORDER BY FIELD(severity,'critical','high','medium','low'), last_seen_at DESC
ActiveConcernRows(rows) ==
  LET active == {r \in rows : r.exists /\ r.status \in {"active", "improving", "escalated"}}
  IN OrderByDesc(active, [r \in active |-> SeverityField(r.severity) * 1000 + r.lastSeenAt])

\* WHERE is_superseded = 0 ORDER BY created_at DESC LIMIT n  (created_at is
\* the time of the INSERT, which is also the order of the ids)
RecentEpisodeRows(rows, n) ==
  LET live == {e \in rows : ~e.isSuperseded}
  IN FirstN(OrderByDesc(live, [e \in live |-> e.id]), n)

\* ------------------------------------------------------------------------
\* Row locks of the store
\* ------------------------------------------------------------------------

\* The other calls whose transaction holds lock l
Holders(l, c) == {d \in CallIds \ {c} : l \in txs[d].locks}

\* A locking read or an UPDATE of the profile row waits for the row's lock
UpdateBlockers(c, t) == Holders(ProfileLock(t), c)

\* An INSERT of a tenant's profile row waits for the lock of the row another
\* transaction wrote and, when there is no row, for the gap locks others hold:
\* a gap lock covers the whole interval between two rows of the index, so
\* the tenants that have no row, adjacent in the key order, share one gap
InsertBlockers(c, t) ==
  Holders(ProfileLock(t), c)
    \cup (IF profiles[t].exists THEN {}
          ELSE UNION {Holders(GapLock(u), c) : u \in Tenants})

\* The calls whose locks the next statement of call c has to wait for
Blockers(c) ==
  LET f == calls[c]
      t == f.tenantId
  IN CASE f.pc \in {"selectForUpdate", "retryUpdate"} -> UpdateBlockers(c, t)
       [] f.pc = "writeProfile" ->
            IF f.currentVersion = 0 THEN InsertBlockers(c, t) ELSE UpdateBlockers(c, t)
       [] f.pc = "upsert" ->
            IF f.expectedVersion = 0 THEN InsertBlockers(c, t) ELSE UpdateBlockers(c, t)
       [] f.pc = "insertFresh" -> InsertBlockers(c, t)
       [] f.pc = "upsertConcern" ->
            Holders(ConcernLock(t, f.opts.concerns[f.i].concernKey), c)
       [] f.pc = "updateStatus" -> Holders(ConcernLock(t, f.opts.concernKey), c)
       [] f.pc = "writeFile" -> Holders(FileLock(t), c)
       [] OTHER -> {}

\* The edges of the waits-for graph that leave call c
WaitsFor(c) == IF txs[c].waiting THEN Blockers(c) ELSE {}

RECURSIVE WaitsForClosure(_, _)
WaitsForClosure(S, n) ==
  IF n = 0 THEN S
  ELSE WaitsForClosure(S \cup UNION {WaitsFor(d) : d \in S}, n - 1)

\* A variant of a store that detects no deadlock
InNoLockCycle(c) == FALSE

\* Call c is part of a cycle of the waits-for graph
InLockCycle(c) == c \in WaitsForClosure(WaitsFor(c), Cardinality(CallIds))

\* The lock a waiting statement of call c asked for has become free: the
\* store runs that statement before it serves a later request.
Granted(c) == txs[c].waiting /\ Blockers(c) = {}

\* The next statement of call c can take its locks
MayLock(c) == Blockers(c) = {} /\ \A d \in CallIds \ {c} : ~Granted(d)

\* ------------------------------------------------------------------------
\* Call frames
\* ------------------------------------------------------------------------

NoStats == [getConnection |-> 0, beginTransaction |-> 0, commit |-> 0,
            rollback |-> 0, release |-> 0]

Running == [status |-> "running"]

\* The frame of a call that has not started; its locals hold their initial
\* values and are reset when an attempt ends.  stats counts the calls made on
\* the pool and the connection, log keeps what each catch block saw.
\* No HTTP request stands behind the call
NoRequest == [path |-> "none"]

Frame(kind, t, opts, expectedVersion, pc) ==
  [kind |-> kind, request |-> NoRequest, tenantId |-> t, opts |-> opts, expectedVersion |-> expectedVersion,
   pc |-> pc, retryCount |-> 0, currentVersion |-> 0, updates |-> EmptyDoc,
   current |-> NoRow, callNo |-> 1,
   i |-> 1, concernResults |-> <<>>, results |-> EmptyDoc,
   renderProfile |-> NoRow, renderConcerns |-> <<>>, renderEpisodes |-> <<>>,
   pending |-> {}, markdownContent |-> NoContent,
   err |-> NoErr, outcome |-> Running, stats |-> NoStats, log |-> <<>>]

ResetLocals(f) ==
  [f EXCEPT !.currentVersion = 0, !.updates = EmptyDoc, !.current = NoRow, !.i = 1,
            !.concernResults = <<>>, !.results = EmptyDoc, !.renderProfile = NoRow,
            !.renderConcerns = <<>>, !.renderEpisodes = <<>>, !.pending = {},
            !.markdownContent = NoContent, !.err = NoErr]

NoUpdates == [given |-> FALSE, doc |-> EmptyDoc]
Updates(doc) == [given |-> TRUE, doc |-> doc]
NoEpisode == [given |-> FALSE]
Episode(type, channel, content) ==
  [given |-> TRUE, episodeType |-> type, channel |-> channel, content |-> content]
Concern(k, name, severity, text, source) ==
  [concernKey |-> k, displayName |-> name, severity |-> severity,
   evidenceText |-> text, source |-> source]

\* opts.profileUpdates && Object.keys(opts.profileUpdates).length > 0
HasProfileUpdates(o) == o.profileUpdates.given /\ DOMAIN o.profileUpdates.doc # {}

\* The statement an attempt runs next, after each part of ingest
AfterConcerns(o) == IF o.render THEN "renderProfile" ELSE "commit"
AfterEpisode(o) == IF Len(o.concerns) > 0 THEN "upsertConcern" ELSE AfterConcerns(o)
AfterProfile(o) == IF o.episode.given THEN "insertEpisode" ELSE AfterEpisode(o)
\* A variant that enters the profile part for an empty profileUpdates too
AfterBeginAnyUpdates(o) == IF o.profileUpdates.given THEN "selectForUpdate" ELSE AfterProfile(o)
AfterBegin(o) == IF HasProfileUpdates(o) THEN "selectForUpdate" ELSE AfterProfile(o)

\* ------------------------------------------------------------------------
\* ingest: one action per awaited call, in the order of the code
\* ------------------------------------------------------------------------

\* const conn = await this.pool.getConnection()
GetConnection(c) ==
  /\ calls[c].kind = "ingest" /\ calls[c].pc = "getConnection"
  /\ pool < ConnectionLimit
  /\ pool' = pool + 1
  /\ calls' = [calls EXCEPT ![c].pc = "beginTransaction",
                            ![c].stats.getConnection = @ + 1]
  /\ UNCHANGED <<store, autoInc, clock, txs, config, faults>>

\* await conn.beginTransaction(); const results = {}
BeginTransaction(c) ==
  /\ calls[c].kind = "ingest" /\ calls[c].pc = "beginTransaction"
  /\ txs' = [txs EXCEPT ![c] = [NoTx EXCEPT !.open = TRUE]]
  /\ calls' = [calls EXCEPT ![c].pc = AfterBegin(calls[c].opts),
                            ![c].stats.beginTransaction = @ + 1]
  /\ UNCHANGED <<store, autoInc, clock, pool, config, faults>>

\* The updates ingest writes: medical_facts, when a non-empty array, is
\* merged against the facts of the row read under the lock.
MergedUpdates(current, updates) ==
  IF "medical_facts" \in DOMAIN updates /\ Len(updates["medical_facts"]) > 0
  THEN LET existingFacts ==
             IF current.exists /\ "medical_facts" \in DOMAIN current.data
             THEN current.data["medical_facts"] ELSE <<>>
       IN [updates EXCEPT !["medical_facts"] = mergeMedicalFacts(existingFacts, @)]
  ELSE updates

\* The lock SELECT ... FOR UPDATE takes: the row's lock when there is a row,
\* a gap lock (at REPEATABLE READ) or nothing (at READ COMMITTED) otherwise.
ForUpdateLocks(t) ==
  IF profiles[t].exists THEN {ProfileLock(t)}
  ELSE IF gapLocks THEN {GapLock(t)} ELSE {}

\* SELECT ... FROM oc_memory_profiles WHERE tenant_id = ? FOR UPDATE, and the
\* code up to the next statement
SelectForUpdate(c) ==
  LET f == calls[c]
      t == f.tenantId
      current == profiles[t]
  IN /\ f.kind = "ingest" /\ f.pc = "selectForUpdate"
     /\ MayLock(c)
     /\ txs' = [txs EXCEPT ![c].locks = @ \cup ForUpdateLocks(t), ![c].waiting = FALSE]
     /\ calls' = [calls EXCEPT
          ![c].pc = "writeProfile",
          ![c].currentVersion = IF current.exists THEN current.version ELSE 0,
          ![c].updates = MergedUpdates(current, f.opts.profileUpdates.doc)]
     /\ UNCHANGED <<store, autoInc, clock, pool, config, faults>>

\* A variant whose INSERT replaces the row it finds
InsertOrReplaceRow(row, updates) == [exists |-> TRUE, data |-> updates, version |-> 1]

\* INSERT INTO oc_memory_profiles ... VALUES (?, ?, 1, ...)
\* ON DUPLICATE KEY UPDATE profile_data = JSON_MERGE_PATCH(...), version = version + 1
InsertOrMergeRow(row, updates) ==
  IF row.exists
  THEN [exists |-> TRUE, data |-> JsonMergePatch(row.data, updates),
        version |-> row.version + 1]
  ELSE [exists |-> TRUE, data |-> updates, version |-> 1]

\* UPDATE oc_memory_profiles SET profile_data = JSON_MERGE_PATCH(profile_data, ?),
\* version = version + 1 WHERE tenant_id = ? AND version = ?
UpdateMatches(row, version) == row.exists /\ row.version = version

UpdateRow(row, updates) ==
  [exists |-> TRUE, data |-> JsonMergePatch(row.data, updates),
   version |-> row.version + 1]

\* The INSERT (currentVersion === 0) or the UPDATE of the profile step
WriteProfile(c) ==
  LET f == calls[c]
      t == f.tenantId
      row == ProfileSeen(c, t)
  IN /\ f.kind = "ingest" /\ f.pc = "writeProfile"
     /\ MayLock(c)
     /\ IF f.currentVersion = 0
        THEN /\ txs' = [txs EXCEPT
                  ![c].locks = @ \cup {ProfileLock(t)}, ![c].waiting = FALSE,
                  ![c].profile = [written |-> TRUE, row |-> InsertOrMergeRow(row, f.updates)]]
             /\ calls' = [calls EXCEPT
                  ![c].pc = AfterProfile(f.opts),
                  ![c].results = ("profile" :> [updated |-> TRUE, newVersion |-> 1]) @@ @]
        ELSE /\ txs' = [txs EXCEPT
                  ![c].locks = @ \cup {ProfileLock(t)}, ![c].waiting = FALSE,
                  ![c].profile = IF UpdateMatches(row, f.currentVersion)
                                 THEN [written |-> TRUE, row |-> UpdateRow(row, f.updates)]
                                 ELSE @]
             /\ calls' = [calls EXCEPT
                  ![c].pc = AfterProfile(f.opts),
                  ![c].results = ("profile" :>
                       [updated |-> TRUE, newVersion |-> f.currentVersion + 1]) @@ @]
     /\ UNCHANGED <<store, autoInc, clock, pool, config, faults>>

\* INSERT INTO oc_memory_episodes ...; results.episode = { id: insertId }
EpisodeRow(id, t, e) ==
  [id |-> id, tenantId |-> t, episodeType |-> e.episodeType, channel |-> e.channel,
   content |-> e.content, isSuperseded |-> FALSE]

InsertEpisode(c) ==
  LET f == calls[c]
      id == autoInc.episodes
  IN /\ f.kind = "ingest" /\ f.pc = "insertEpisode"
     /\ txs' = [txs EXCEPT ![c].episodes = @ \cup {EpisodeRow(id, f.tenantId, f.opts.episode)}]
     /\ autoInc' = [autoInc EXCEPT !.episodes = @ + 1]
     /\ calls' = [calls EXCEPT ![c].pc = AfterEpisode(f.opts),
                               ![c].results = ("episode" :> [id |-> id]) @@ @]
     /\ UNCHANGED <<store, clock, pool, config, faults>>

\* INSERT INTO oc_memory_concerns (tenant_id, concern_key, display_name,
\* severity, evidence) VALUES (...): the columns not named take their defaults.
\* A nullable timestamp is <<>> (NULL) or <<time>>.
InsertedConcern(id, cn, now) ==
  [exists |-> TRUE, id |-> id, displayName |-> cn.displayName, severity |-> cn.severity,
   status |-> "active", mentionCount |-> 1,
   evidence |-> <<[text |-> cn.evidenceText, source |-> cn.source]>>,
   firstSeenAt |-> now, lastSeenAt |-> now, resolvedAt |-> <<>>]

\* A variant whose upsert stores the incoming display name too
UpdatedConcernRenames(row, cn, now) ==
  [row EXCEPT
     !.displayName = cn.displayName,
     !.mentionCount = @ + 1,
     !.evidence = Append(@, [text |-> cn.evidenceText, source |-> cn.source]),
     !.severity = IF SeverityField(cn.severity) > SeverityField(@) THEN cn.severity ELSE @,
     !.lastSeenAt = now,
     !.resolvedAt = IF row.status = "resolved" THEN <<>> ELSE @,
     !.status = IF row.status = "resolved" THEN "active" ELSE @]

\* A variant whose upsert stores the incoming severity
UpdatedConcernOverwritesSeverity(row, cn, now) ==
  [row EXCEPT
     !.mentionCount = @ + 1,
     !.evidence = Append(@, [text |-> cn.evidenceText, source |-> cn.source]),
     !.severity = cn.severity,
     !.lastSeenAt = now,
     !.resolvedAt = IF row.status = "resolved" THEN <<>> ELSE @,
     !.status = IF row.status = "resolved" THEN "active" ELSE @]

\* A variant whose upsert leaves a resolved concern resolved
UpdatedConcernKeepsStatus(row, cn, now) ==
  [row EXCEPT
     !.mentionCount = @ + 1,
     !.evidence = Append(@, [text |-> cn.evidenceText, source |-> cn.source]),
     !.severity = IF SeverityField(cn.severity) > SeverityField(@) THEN cn.severity ELSE @,
     !.lastSeenAt = now]

\* A variant whose upsert replaces the evidence by the new entry
UpdatedConcernReplacesEvidence(row, cn, now) ==
  [row EXCEPT
     !.mentionCount = @ + 1,
     !.evidence = <<[text |-> cn.evidenceText, source |-> cn.source]>>,
     !.severity = IF SeverityField(cn.severity) > SeverityField(@) THEN cn.severity ELSE @,
     !.lastSeenAt = now,
     !.resolvedAt = IF row.status = "resolved" THEN <<>> ELSE @,
     !.status = IF row.status = "resolved" THEN "active" ELSE @]

\* ON DUPLICATE KEY UPDATE mention_count = mention_count + 1, evidence =
\* JSON_ARRAY_APPEND(...), severity = CASE ..., last_seen_at = CURRENT_TIMESTAMP,
\* resolved_at = CASE ..., status = CASE ...
UpdatedConcern(row, cn, now) ==
  [row EXCEPT
     !.mentionCount = @ + 1,
     !.evidence = Append(@, [text |-> cn.evidenceText, source |-> cn.source]),
     !.severity = IF SeverityField(cn.severity) > SeverityField(@) THEN cn.severity ELSE @,
     !.lastSeenAt = now,
     !.resolvedAt = IF row.status = "resolved" THEN <<>> ELSE @,
     !.status = IF row.status = "resolved" THEN "active" ELSE @]

UpsertedConcern(row, id, cn, now) ==
  IF row.exists THEN UpdatedConcern(row, cn, now) ELSE InsertedConcern(id, cn, now)

\* The INSERT ... ON DUPLICATE KEY UPDATE of the i-th concern
UpsertConcern(c) ==
  LET f == calls[c]
      t == f.tenantId
      cn == f.opts.concerns[f.i]
      row == ConcernSeen(c, t, cn.concernKey)
  IN /\ f.kind = "ingest" /\ f.pc = "upsertConcern"
     /\ MayLock(c)
     /\ txs' = [txs EXCEPT
          ![c].locks = @ \cup {ConcernLock(t, cn.concernKey)}, ![c].waiting = FALSE,
          ![c].concerns = (cn.concernKey :> UpsertedConcern(row, autoInc.concerns, cn, clock))
                            @@ @]
     /\ autoInc' = [autoInc EXCEPT !.concerns = IF row.exists THEN @ ELSE @ + 1]
     /\ clock' = clock + 1
     /\ calls' = [calls EXCEPT ![c].pc = "readConcern"]
     /\ UNCHANGED <<store, pool, config, faults>>

\* A variant that reports every concern as mentioned once
ConcernResultAssumesNew(row) ==
  [id |-> IF row.exists THEN row.id ELSE 0, mentionCount |-> 1]

\* SELECT id, mention_count FROM oc_memory_concerns WHERE ...; the result is
\* pushed and the loop goes on
ConcernResult(row) ==
  IF row.exists THEN [id |-> row.id, mentionCount |-> row.mentionCount]
  ELSE [id |-> 0, mentionCount |-> 1]

ReadConcern(c) ==
  LET f == calls[c]
      cn == f.opts.concerns[f.i]
      concernResults == Append(f.concernResults, ConcernResult(ConcernSeen(c, f.tenantId, cn.concernKey)))
  IN /\ f.kind = "ingest" /\ f.pc = "readConcern"
     /\ calls' = [calls EXCEPT ![c] =
          IF f.i < Len(f.opts.concerns)
          THEN [f EXCEPT !.pc = "upsertConcern", !.i = f.i + 1,
                         !.concernResults = concernResults]
          ELSE [f EXCEPT !.pc = AfterConcerns(f.opts), !.i = 1, !.concernResults = <<>>,
                         !.results = ("concerns" :> concernResults) @@ @]]
     /\ UNCHANGED <<store, autoInc, clock, txs, pool, config, faults>>

\* The render's SELECT of the profile row
RenderProfile(c) ==
  LET f == calls[c]
  IN /\ f.kind = "ingest" /\ f.pc = "renderProfile"
     /\ calls' = [calls EXCEPT ![c].pc = "renderConcerns",
                               ![c].renderProfile = ProfileSeen(c, f.tenantId)]
     /\ UNCHANGED <<store, autoInc, clock, txs, pool, config, faults>>

\* The render's SELECT of the active concerns
RenderConcerns(c) ==
  LET f == calls[c]
  IN /\ f.kind = "ingest" /\ f.pc = "renderConcerns"
     /\ calls' = [calls EXCEPT
          ![c].pc = "renderEpisodes",
          ![c].renderConcerns =
             ActiveConcernRows({ConcernSeen(c, f.tenantId, k) : k \in ConcernKeys})]
     /\ UNCHANGED <<store, autoInc, clock, txs, pool, config, faults>>

\* The render's SELECT of the recent episodes, then assembleMemoryMarkdown
RenderEpisodes(c) ==
  LET f == calls[c]
      renderEpisodes == RecentEpisodeRows(EpisodesSeen(c, f.tenantId), RenderLimit)
      markdownContent == assembleMemoryMarkdown(f.renderProfile, f.renderConcerns, renderEpisodes)
  IN /\ f.kind = "ingest" /\ f.pc = "renderEpisodes"
     /\ calls' = [calls EXCEPT ![c] =
          IF markdownContent.exists
          THEN [f EXCEPT !.pc = "writeFile", !.markdownContent = markdownContent,
                         !.renderProfile = NoRow, !.renderConcerns = <<>>]
          ELSE [f EXCEPT !.pc = "commit", !.renderProfile = NoRow, !.renderConcerns = <<>>,
                         !.results = ("render" :> [rendered |-> FALSE]) @@ @]]
     /\ UNCHANGED <<store, autoInc, clock, txs, pool, config, faults>>

\* INSERT INTO tenant_bootstrap_files ... ON DUPLICATE KEY UPDATE content = ...
WriteFile(c) ==
  LET f == calls[c]
  IN /\ f.kind = "ingest" /\ f.pc = "writeFile"
     /\ MayLock(c)
     /\ txs' = [txs EXCEPT
          ![c].locks = @ \cup {FileLock(f.tenantId)}, ![c].waiting = FALSE,
          ![c].file = [written |-> TRUE, row |-> f.markdownContent]]
     /\ calls' = [calls EXCEPT ![c].pc = "commit", ![c].markdownContent = NoContent,
                               ![c].results = ("render" :> [rendered |-> TRUE]) @@ @]
     /\ UNCHANGED <<store, autoInc, clock, pool, config, faults>>

\* ------------------------------------------------------------------------
\* Transactions: commit, failure, rollback, retry
\* ------------------------------------------------------------------------

Returned(f, value) ==
  [ResetLocals(f) EXCEPT !.pc = "done", !.outcome = [status |-> "returned", value |-> value]]

Thrown(f, err) ==
  [ResetLocals(f) EXCEPT !.pc = "done", !.outcome = [status |-> "thrown", error |-> err]]

\* The committed tables after the transaction of call c has committed
CommittedProfiles(c) ==
  IF txs[c].profile.written
  THEN [profiles EXCEPT ![calls[c].tenantId] = txs[c].profile.row] ELSE profiles

\* A variant whose commit leaves only the new episodes of the tenant
CommittedEpisodesOnlyNew(c) ==
  IF txs[c].episodes = {} THEN episodes
  ELSE {e \in episodes : e.tenantId # calls[c].tenantId} \cup txs[c].episodes

CommittedEpisodes(c) == episodes \cup txs[c].episodes

CommittedConcerns(c) ==
  [concerns EXCEPT ![calls[c].tenantId] =
     [k \in ConcernKeys |-> IF k \in DOMAIN txs[c].concerns THEN txs[c].concerns[k] ELSE @[k]]]

CommittedFiles(c) ==
  IF txs[c].file.written
  THEN [files EXCEPT ![calls[c].tenantId] = [exists |-> TRUE, content |-> txs[c].file.row]]
  ELSE files

\* await conn.commit(); return results; finally conn.release()
Commit(c) ==
  LET f == calls[c]
  IN /\ f.kind = "ingest" /\ f.pc = "commit"
     /\ profiles' = CommittedProfiles(c)
     /\ episodes' = CommittedEpisodes(c)
     /\ concerns' = CommittedConcerns(c)
     /\ files' = CommittedFiles(c)
     /\ txs' = [txs EXCEPT ![c] = NoTx]
     /\ pool' = pool - 1
     /\ calls' = [calls EXCEPT ![c] =
          [Returned(f, f.results) EXCEPT !.stats.commit = @ + 1, !.stats.release = @ + 1]]
     /\ UNCHANGED <<autoInc, clock, config, faults>>

\* The awaited calls inside the try block
StatementPcs ==
  {"beginTransaction", "selectForUpdate", "writeProfile", "insertEpisode",
   "upsertConcern", "readConcern", "renderProfile", "renderConcerns",
   "renderEpisodes", "writeFile", "commit"}

\* The statements that take row locks and so can wait for other sessions
LockingPcs ==
  {"selectForUpdate", "writeProfile", "insertEpisode", "upsertConcern", "writeFile"}

\* The errors the store raises on a statement: the lock errors only where
\* the statement takes a lock
StatementErrors(at) ==
  IF at \in LockingPcs
  THEN {DeadlockErr(at), LockWaitErr(at), DupEntryErr(at)}
  ELSE {DupEntryErr(at)}

\* The transaction after a statement of it failed with err: InnoDB rolls the
\* whole transaction back on a deadlock and only the statement otherwise.
TxAfterError(tx, err) ==
  IF err.errno = ErDeadlock THEN NoTx ELSE [tx EXCEPT !.waiting = FALSE]

\* An awaited call rejects: control passes to the catch block
Caught(f, err) == [f EXCEPT !.pc = "rollback", !.err = err]

\* A statement of the transaction fails for a reason outside the model
StatementFails(c) ==
  LET f == calls[c]
  IN /\ f.kind = "ingest" /\ f.pc \in StatementPcs
     /\ faults < MaxFaults
     /\ \E err \in StatementErrors(f.pc) :
          /\ txs' = [txs EXCEPT ![c] = TxAfterError(@, err)]
          /\ calls' = [calls EXCEPT ![c] = Caught(f, err)]
     /\ faults' = faults + 1
     /\ UNCHANGED <<store, autoInc, clock, pool, config>>

\* The statement call c sends next has to wait for a lock
Blocked(c) ==
  /\ calls[c].kind = "ingest"
  /\ ~txs[c].waiting
  /\ Blockers(c) # {}
  /\ txs' = [txs EXCEPT ![c].waiting = TRUE]
  /\ UNCHANGED <<store, autoInc, clock, calls, pool, config, faults>>

\* The store finds call c in a lock cycle and makes it the victim
DeadlockDetected(c) ==
  LET f == calls[c]
  IN /\ f.kind = "ingest" /\ InLockCycle(c)
     /\ txs' = [txs EXCEPT ![c] = TxAfterError(@, DeadlockErr(f.pc))]
     /\ calls' = [calls EXCEPT ![c] = Caught(f, DeadlockErr(f.pc))]
     /\ UNCHANGED <<store, autoInc, clock, pool, config, faults>>

\* innodb_lock_wait_timeout elapses while a statement of call c waits
LockWaitTimeout(c) ==
  LET f == calls[c]
  IN /\ f.kind = "ingest" /\ txs[c].waiting /\ Blockers(c) # {}
     /\ faults < MaxFaults
     /\ txs' = [txs EXCEPT ![c] = TxAfterError(@, LockWaitErr(f.pc))]
     /\ calls' = [calls EXCEPT ![c] = Caught(f, LockWaitErr(f.pc))]
     /\ faults' = faults + 1
     /\ UNCHANGED <<store, autoInc, clock, pool, config>>

\* A variant whose retry goes on with the locals of the failed attempt
AfterRollbackKeepsLocals(f) ==
  IF shouldRetry(f.err, f.retryCount)
  THEN [f EXCEPT !.pc = "getConnection", !.retryCount = @ + 1, !.err = NoErr]
  ELSE Thrown(f, f.err)

\* The frame after the catch block's rollback succeeded: the recursive call
\* (its frame, with fresh locals, replaces this one) or the rethrow; finally
\* releases conn.
AfterRollback(f) ==
  IF shouldRetry(f.err, f.retryCount)
  THEN [ResetLocals(f) EXCEPT !.pc = "getConnection", !.retryCount = @ + 1]
  ELSE Thrown(f, f.err)

\* A variant whose catch block commits what the attempt wrote so far
RollbackCommits(c) ==
  LET f == calls[c]
  IN /\ f.kind = "ingest" /\ f.pc = "rollback"
     /\ profiles' = CommittedProfiles(c)
     /\ episodes' = CommittedEpisodes(c)
     /\ concerns' = CommittedConcerns(c)
     /\ files' = CommittedFiles(c)
     /\ txs' = [txs EXCEPT ![c] = NoTx]
     /\ pool' = pool - 1
     /\ calls' = [calls EXCEPT ![c] =
          [AfterRollback(f) EXCEPT
             !.stats.rollback = @ + 1, !.stats.release = @ + 1,
             !.log = Append(@, [error |-> f.err, rollback |-> "resolved"])]]
     /\ UNCHANGED <<autoInc, clock, config, faults>>

\* await conn.rollback() resolves
Rollback(c) ==
  LET f == calls[c]
  IN /\ f.kind = "ingest" /\ f.pc = "rollback"
     /\ txs' = [txs EXCEPT ![c] = NoTx]
     /\ pool' = pool - 1
     /\ calls' = [calls EXCEPT ![c] =
          [AfterRollback(f) EXCEPT
             !.stats.rollback = @ + 1, !.stats.release = @ + 1,
             !.log = Append(@, [error |-> f.err, rollback |-> "resolved"])]]
     /\ UNCHANGED <<store, autoInc, clock, config, faults>>

\* A variant that swallows the rejection of rollback and goes on in the catch
\* block
RollbackFailureSwallowed(c) ==
  LET f == calls[c]
  IN /\ f.kind = "ingest" /\ f.pc = "rollback"
     /\ faults < MaxFaults
     /\ txs' = [txs EXCEPT ![c] = NoTx]
     /\ pool' = pool - 1
     /\ calls' = [calls EXCEPT ![c] =
          [AfterRollback(f) EXCEPT
             !.stats.rollback = @ + 1, !.stats.release = @ + 1,
             !.log = Append(@, [error |-> f.err, rollback |-> "rejected"])]]
     /\ faults' = faults + 1
     /\ UNCHANGED <<store, autoInc, clock, config>>

\* A variant that releases the connection at the end of the catch block
\* instead of in finally: a rejected rollback skips the release
RollbackFailsWithoutRelease(c) ==
  LET f == calls[c]
  IN /\ f.kind = "ingest" /\ f.pc = "rollback"
     /\ faults < MaxFaults
     /\ txs' = [txs EXCEPT ![c] = NoTx]
     /\ calls' = [calls EXCEPT ![c] =
          [Thrown(f, ConnLostErr("rollback")) EXCEPT
             !.stats.rollback = @ + 1,
             !.log = Append(@, [error |-> f.err, rollback |-> "rejected"])]]
     /\ faults' = faults + 1
     /\ UNCHANGED <<store, autoInc, clock, pool, config>>

\* await conn.rollback() rejects: the connection is lost, the store discards
\* the session's transaction; the rejection leaves the catch block
RollbackFails(c) ==
  LET f == calls[c]
  IN /\ f.kind = "ingest" /\ f.pc = "rollback"
     /\ faults < MaxFaults
     /\ txs' = [txs EXCEPT ![c] = NoTx]
     /\ pool' = pool - 1
     /\ calls' = [calls EXCEPT ![c] =
          [Thrown(f, ConnLostErr("rollback")) EXCEPT
             !.stats.rollback = @ + 1, !.stats.release = @ + 1,
             !.log = Append(@, [error |-> f.err, rollback |-> "rejected"])]]
     /\ faults' = faults + 1
     /\ UNCHANGED <<store, autoInc, clock, config>>

\* ------------------------------------------------------------------------
\* upsertProfile: one action per awaited call; each statement runs on the
\* pool in autocommit mode
\* ------------------------------------------------------------------------

\* The first statement: the INSERT ... ON DUPLICATE KEY UPDATE when
\* expectedVersion === 0, the UPDATE ... WHERE version = expectedVersion
\* otherwise
UpsertStatement(c) ==
  LET f == calls[c]
      t == f.tenantId
      row == profiles[t]
      updates == f.opts.profileUpdates.doc
  IN /\ f.kind = "upsertProfile" /\ f.pc = "upsert"
     /\ MayLock(c)
     /\ IF f.expectedVersion = 0
        THEN /\ profiles' = [profiles EXCEPT ![t] = InsertOrMergeRow(row, updates)]
             /\ calls' = [calls EXCEPT ![c] =
                  Returned(f, [updated |-> TRUE, newVersion |-> 1])]
        ELSE IF UpdateMatches(row, f.expectedVersion)
        THEN /\ profiles' = [profiles EXCEPT ![t] = UpdateRow(row, updates)]
             /\ calls' = [calls EXCEPT ![c] =
                  Returned(f, [updated |-> TRUE, newVersion |-> f.expectedVersion + 1])]
        ELSE /\ profiles' = profiles
             /\ calls' = [calls EXCEPT ![c].pc = "reread"]
     /\ UNCHANGED <<episodes, concerns, files, autoInc, clock, txs, pool, config, faults>>

\* const current = await this.getProfile(tenantId)
Reread(c) ==
  LET f == calls[c]
      current == profiles[f.tenantId]
  IN /\ f.kind = "upsertProfile" /\ f.pc = "reread"
     /\ calls' = [calls EXCEPT
          ![c].pc = IF current.exists THEN "retryUpdate" ELSE "insertFresh",
          ![c].current = current]
     /\ UNCHANGED <<store, autoInc, clock, txs, pool, config, faults>>

\* The plain INSERT of the "deleted concurrently" branch: it is rejected with
\* a duplicate-key error when a row was written since the re-read
InsertFresh(c) ==
  LET f == calls[c]
      t == f.tenantId
  IN /\ f.kind = "upsertProfile" /\ f.pc = "insertFresh"
     /\ MayLock(c)
     /\ IF profiles[t].exists
        THEN /\ profiles' = profiles
             /\ calls' = [calls EXCEPT ![c] = Thrown(f, DupEntryErr("insertFresh"))]
        ELSE /\ profiles' = [profiles EXCEPT ![t] =
                  [exists |-> TRUE, data |-> f.opts.profileUpdates.doc, version |-> 1]]
             /\ calls' = [calls EXCEPT ![c] =
                  Returned(f, [updated |-> TRUE, newVersion |-> 1])]
     /\ UNCHANGED <<episodes, concerns, files, autoInc, clock, txs, pool, config, faults>>

\* The second UPDATE, WHERE version = current.version
RetryUpdate(c) ==
  LET f == calls[c]
      t == f.tenantId
      row == profiles[t]
      matches == UpdateMatches(row, f.current.version)
  IN /\ f.kind = "upsertProfile" /\ f.pc = "retryUpdate"
     /\ MayLock(c)
     /\ profiles' = IF matches
                    THEN [profiles EXCEPT ![t] = UpdateRow(row, f.opts.profileUpdates.doc)]
                    ELSE profiles
     /\ calls' = [calls EXCEPT ![c] =
          Returned(f, [updated |-> matches, newVersion |-> f.current.version + 1])]
     /\ UNCHANGED <<episodes, concerns, files, autoInc, clock, txs, pool, config, faults>>

UpsertProfileStep(c) ==
  \/ UpsertStatement(c)
  \/ Reread(c)
  \/ InsertFresh(c)
  \/ RetryUpdate(c)

\* ------------------------------------------------------------------------
\* upsertConcern and updateConcernStatus: statements on the pool, autocommit
\* ------------------------------------------------------------------------

\* The INSERT ... ON DUPLICATE KEY UPDATE of upsertConcern
UpsertConcernStatement(c) ==
  LET f == calls[c]
      t == f.tenantId
      cn == f.opts.concerns[1]
      row == concerns[t][cn.concernKey]
  IN /\ f.kind = "upsertConcern" /\ f.pc = "upsertConcern"
     /\ MayLock(c)
     /\ concerns' = [concerns EXCEPT ![t][cn.concernKey] =
                       UpsertedConcern(row, autoInc.concerns, cn, clock)]
     /\ autoInc' = [autoInc EXCEPT !.concerns = IF row.exists THEN @ ELSE @ + 1]
     /\ clock' = clock + 1
     /\ calls' = [calls EXCEPT ![c].pc = "readBack"]
     /\ UNCHANGED <<profiles, episodes, files, txs, pool, config, faults>>

\* SELECT id, mention_count ...; return { id, mentionCount }
ReadBack(c) ==
  LET f == calls[c]
      row == concerns[f.tenantId][f.opts.concerns[1].concernKey]
  IN /\ f.kind = "upsertConcern" /\ f.pc = "readBack"
     /\ calls' = [calls EXCEPT ![c] = Returned(f, ConcernResult(row))]
     /\ UNCHANGED <<store, autoInc, clock, txs, pool, config, faults>>

\* A variant that lets every status through
AnyStatus == {"improving", "resolved", "escalated", "active"}

\* new Set(["improving", "resolved", "escalated"])
AllowedStatus == {"improving", "resolved", "escalated"}

\* A variant that resolves without a time
StatusSetKeepsResolvedAt(row, status, now) == [row EXCEPT !.status = status]

\* UPDATE oc_memory_concerns SET status = ?, resolved_at = CURRENT_TIMESTAMP
\* (resolved) or resolved_at = NULL (improving, escalated)
StatusSet(row, status, now) ==
  [row EXCEPT !.status = status,
              !.resolvedAt = IF status = "resolved" THEN <<now>> ELSE <<>>]

\* updateConcernStatus: the guard, then the one UPDATE; affectedRows is the
\* number of rows the WHERE clause matches
UpdateConcernStatus(c) ==
  LET f == calls[c]
      t == f.tenantId
      k == f.opts.concernKey
      row == concerns[t][k]
  IN /\ f.kind = "updateConcernStatus" /\ f.pc = "updateStatus"
     /\ IF f.opts.status \notin AllowedStatus
        THEN /\ calls' = [calls EXCEPT ![c] = Returned(f, [updated |-> 0])]
             /\ UNCHANGED <<concerns, clock>>
        ELSE /\ MayLock(c)
             /\ IF row.exists
                THEN /\ concerns' = [concerns EXCEPT ![t][k] = StatusSet(row, f.opts.status, clock)]
                     /\ clock' = clock + 1
                     /\ calls' = [calls EXCEPT ![c] = Returned(f, [updated |-> 1])]
                ELSE /\ calls' = [calls EXCEPT ![c] = Returned(f, [updated |-> 0])]
                     /\ UNCHANGED <<concerns, clock>>
     /\ UNCHANGED <<profiles, episodes, files, autoInc, txs, pool, config, faults>>

\* A statement sent on the pool rejects: the call rejects with it. The guard
\* of updateConcernStatus returns before any statement is sent.
PoolStatementFails(c) ==
  LET f == calls[c]
  IN /\ \/ f.kind = "upsertConcern" /\ f.pc \in {"upsertConcern", "readBack"}
        \/ f.kind = "updateConcernStatus" /\ f.pc = "updateStatus"
             /\ f.opts.status \in AllowedStatus
     /\ faults < MaxFaults
     /\ \E err \in StatementErrors(f.pc) :
          calls' = [calls EXCEPT ![c] = Thrown(f, err)]
     /\ faults' = faults + 1
     /\ UNCHANGED <<store, autoInc, clock, txs, pool, config>>

\* ------------------------------------------------------------------------
\* insertEpisode and renderMemoryFile: statements on the pool, autocommit
\* ------------------------------------------------------------------------

\* insertEpisode: the one INSERT; return { id: result.insertId }
InsertEpisodeStatement(c) ==
  LET f == calls[c]
      id == autoInc.episodes
  IN /\ f.kind = "insertEpisode" /\ f.pc = "insert"
     /\ episodes' = episodes \cup {EpisodeRow(id, f.tenantId, f.opts.episode)}
     /\ autoInc' = [autoInc EXCEPT !.episodes = @ + 1]
     /\ calls' = [calls EXCEPT ![c] = Returned(f, [id |-> id])]
     /\ UNCHANGED <<profiles, concerns, files, clock, txs, pool, config, faults>>

\* The three reads renderMemoryFile sends at once
RenderReads == {"getProfile", "getActiveConcerns", "getRecentEpisodes"}

\* One of the reads of Promise.all([getProfile, getActiveConcerns,
\* getRecentEpisodes]) is answered, from the committed rows; after the last
\* one assembleMemoryMarkdown runs and null returns { rendered: false }
GetForRender(c) ==
  LET f == calls[c]
      t == f.tenantId
  IN /\ f.kind = "renderMemoryFile" /\ f.pc = "reads"
     /\ \E r \in f.pending :
          LET g == [f EXCEPT
                      !.pending = @ \ {r},
                      !.renderProfile = IF r = "getProfile" THEN profiles[t] ELSE @,
                      !.renderConcerns =
                         IF r = "getActiveConcerns"
                         THEN ActiveConcernRows({concerns[t][k] : k \in ConcernKeys}) ELSE @,
                      !.renderEpisodes =
                         IF r = "getRecentEpisodes"
                         THEN RecentEpisodeRows({e \in episodes : e.tenantId = t}, RenderLimit)
                         ELSE @]
              content == assembleMemoryMarkdown(g.renderProfile, g.renderConcerns,
                                                g.renderEpisodes)
          IN calls' = [calls EXCEPT ![c] =
               IF g.pending # {} THEN g
               ELSE IF content.exists
                    THEN [g EXCEPT !.pc = "writeFile", !.markdownContent = content,
                                   !.renderProfile = NoRow, !.renderConcerns = <<>>,
                                   !.renderEpisodes = <<>>]
                    ELSE Returned(g, [rendered |-> FALSE])]
     /\ UNCHANGED <<store, autoInc, clock, txs, pool, config, faults>>

\* INSERT INTO tenant_bootstrap_files ... ON DUPLICATE KEY UPDATE content = ...
\* of renderMemoryFile; return { rendered: true }
WriteFileStatement(c) ==
  LET f == calls[c]
  IN /\ f.kind = "renderMemoryFile" /\ f.pc = "writeFile"
     /\ MayLock(c)
     /\ files' = [files EXCEPT ![f.tenantId] = [exists |-> TRUE, content |-> f.markdownContent]]
     /\ calls' = [calls EXCEPT ![c] = Returned(f, [rendered |-> TRUE])]
     /\ UNCHANGED <<profiles, episodes, concerns, autoInc, clock, txs, pool, config, faults>>

\* ------------------------------------------------------------------------
\* Initial states
\* ------------------------------------------------------------------------

Absent ==
  [Frame("none", "t1", [profileUpdates |-> NoUpdates, episode |-> NoEpisode,
                        concerns |-> <<>>, render |-> FALSE], 0, "absent")
     EXCEPT !.callNo = 0]

\* A store in which nothing was ever written
EmptyStore ==
  [profiles |-> [t \in Tenants |-> NoRow],
   episodes |-> {},
   concerns |-> [t \in Tenants |-> [k \in ConcernKeys |-> NoRow]],
   files |-> [t \in Tenants |-> NoRow],
   autoInc |-> [episodes |-> 1, concerns |-> 1],
   clock |-> 1]

\* The store after ingest("t1", {profileUpdates: {medical_facts: [{fact: "X"}],
\* baby_snapshot: {name: "n0"}}, episode: ..., concerns: [k1 medium]}) and
\* updateConcernStatus("t1", "k1", "resolved")
SeedProfile ==
  [exists |-> TRUE, version |-> 1,
   data |-> [medical_facts |-> <<Fact("X")>>, baby_snapshot |-> [name |-> "n0"]]]

SeedEpisode == EpisodeRow(1, "t1", Episode("checkin", "im", <<"s">>))

SeedConcern ==
  [InsertedConcern(1, Concern("k1", "K1", "medium", "e0", "seed"), 1)
     EXCEPT !.status = "resolved", !.resolvedAt = <<2>>]

SeededStore ==
  [profiles |-> [t \in Tenants |-> IF t = "t1" THEN SeedProfile ELSE NoRow],
   episodes |-> {SeedEpisode},
   concerns |-> [t \in Tenants |-> [k \in ConcernKeys |->
                   IF t = "t1" /\ k = "k1" THEN SeedConcern ELSE NoRow]],
   files |-> [t \in Tenants |->
                IF t = "t1"
                THEN [exists |-> TRUE,
                      content |-> assembleMemoryMarkdown(SeedProfile,
                                    <<[SeedConcern EXCEPT !.status = "active", !.resolvedAt = <<>>]>>,
                                    <<SeedEpisode>>)]
                ELSE NoRow],
   autoInc |-> [episodes |-> 2, concerns |-> 2],
   clock |-> 3]

InitStore(s) ==
  /\ profiles = s.profiles
  /\ episodes = s.episodes
  /\ concerns = s.concerns
  /\ files = s.files
  /\ autoInc = s.autoInc
  /\ clock = s.clock
  /\ txs = [c \in CallIds |-> NoTx]
  /\ pool = 0
  /\ faults = 0
  /\ start = s

\* The store after ingest("t1", {concerns: [k1]}) and
\* updateConcernStatus("t1", "k1", "resolved"): an artifact, and nothing that
\* a render would show
ResolvedStore ==
  [EmptyStore EXCEPT
     !.concerns["t1"]["k1"] = SeedConcern,
     !.files["t1"] = [exists |-> TRUE,
                      content |-> assembleMemoryMarkdown(NoRow,
                                    <<[SeedConcern EXCEPT !.status = "active", !.resolvedAt = <<>>]>>,
                                    <<>>)],
     !.autoInc.concerns = 2,
     !.clock = 3]

\* The ingest of call c: everything it writes carries the name of the call
FullOpts(c) ==
  [profileUpdates |-> Updates([medical_facts |-> <<Fact(c)>>]),
   episode |-> Episode("checkin", "im", <<c>>),
   concerns |-> <<Concern("k1", "K1", "high", c, c)>>,
   render |-> TRUE]

\* ------------------------------------------------------------------------
\* One ingest call alone, with the store failing its statements
\* ------------------------------------------------------------------------

RetryOpts ==
  {FullOpts("A"),
   [profileUpdates |-> NoUpdates,
    episode |-> Episode("conversation", "im", <<"A">>),
    concerns |-> <<Concern("k1", "K1", "low", "A", "A"), Concern("k2", "K2", "high", "A", "A")>>,
    render |-> FALSE],
   [profileUpdates |-> Updates([baby_snapshot |-> [name |-> "A"]]),
    episode |-> NoEpisode, concerns |-> <<>>, render |-> TRUE],
   [profileUpdates |-> NoUpdates, episode |-> NoEpisode, concerns |-> <<>>, render |-> TRUE]}

InitRetry ==
  /\ \E s \in {EmptyStore, SeededStore} : InitStore(s)
  /\ gapLocks \in BOOLEAN
  /\ \E o \in RetryOpts :
       calls = [c \in CallIds |->
                  IF c = "A" THEN Frame("ingest", "t1", o, 0, "getConnection") ELSE Absent]

IngestStep(c) ==
  \/ GetConnection(c)
  \/ BeginTransaction(c)
  \/ SelectForUpdate(c)
  \/ WriteProfile(c)
  \/ InsertEpisode(c)
  \/ UpsertConcern(c)
  \/ ReadConcern(c)
  \/ RenderProfile(c)
  \/ RenderConcerns(c)
  \/ RenderEpisodes(c)
  \/ WriteFile(c)
  \/ Commit(c)
  \/ Rollback(c)

NextRetry ==
  \E c \in CallIds : IngestStep(c) \/ StatementFails(c) \/ RollbackFails(c)

SpecRetry == InitRetry /\ [][NextRetry]_vars

\* ------------------------------------------------------------------------
\* Two concurrent ingest calls for one tenant
\* ------------------------------------------------------------------------

Init ==
  /\ \E s \in {EmptyStore, SeededStore} : InitStore(s)
  /\ gapLocks \in BOOLEAN
  /\ calls = [c \in CallIds |-> Frame("ingest", "t1", FullOpts(c), 0, "getConnection")]

Next ==
  \E c \in CallIds :
    \/ IngestStep(c)
    \/ Blocked(c)
    \/ DeadlockDetected(c)
    \/ LockWaitTimeout(c)
    \/ StatementFails(c)
    \/ RollbackFails(c)

Spec == Init /\ [][Next]_vars

\* ------------------------------------------------------------------------
\* upsertProfile next to another writer of the same profile
\* ------------------------------------------------------------------------

\* upsertProfile(t, {baby_snapshot: {name: c}}, expectedVersion), and the
\* ingest with the same profileUpdates
ProfileOnlyOpts(c) ==
  [profileUpdates |-> Updates([baby_snapshot |-> [name |-> c]]),
   episode |-> NoEpisode, concerns |-> <<>>, render |-> FALSE]

InitProfile ==
  /\ \E s \in {EmptyStore, SeededStore} : InitStore(s)
  /\ gapLocks \in BOOLEAN
  /\ \E v \in 0..MaxExpected :
     \E b \in {Frame("ingest", "t1", FullOpts("B"), 0, "getConnection"),
               Frame("ingest", "t1", ProfileOnlyOpts("B"), 0, "getConnection")}
              \cup {Frame("upsertProfile", "t1", ProfileOnlyOpts("B"), w, "upsert") :
                      w \in 0..MaxExpected} :
       calls = [c \in CallIds |->
                  IF c = "A" THEN Frame("upsertProfile", "t1", ProfileOnlyOpts("A"), v, "upsert")
                  ELSE b]

NextProfile ==
  \E c \in CallIds :
    \/ UpsertProfileStep(c)
    \/ IngestStep(c)
    \/ StatementFails(c)
    \/ RollbackFails(c)

SpecProfile == InitProfile /\ [][NextProfile]_vars

\* ------------------------------------------------------------------------
\* Callers that upsert concerns and set their status, one call after the
\* other, next to each other
\* ------------------------------------------------------------------------

\* ingest(t, {concerns: [cn], render: false})
ConcernOpts(cn) ==
  [profileUpdates |-> NoUpdates, episode |-> NoEpisode, concerns |-> <<cn>>,
   render |-> FALSE]

\* updateConcernStatus(t, k, status)
StatusOpts(k, status) ==
  [profileUpdates |-> NoUpdates, episode |-> NoEpisode, concerns |-> <<>>,
   render |-> FALSE, concernKey |-> k, status |-> status]

\* The display name caller c sends with a concern
DisplayNameOf(c) == IF c = "A" THEN "K1" ELSE "Kone"

\* The calls caller c can start
ConcernCalls(c) ==
  {Frame("upsertConcern", "t1", ConcernOpts(Concern("k1", DisplayNameOf(c), sev, c, c)), 0,
         "upsertConcern") : sev \in {"low", "high"}}
  \cup {Frame("ingest", "t1", ConcernOpts(Concern("k1", DisplayNameOf(c), "critical", c, c)), 0,
              "getConnection")}
  \cup {Frame("updateConcernStatus", "t1", StatusOpts(ks[1], ks[2]), 0, "updateStatus") :
          ks \in {<<"k1", "resolved">>, <<"k1", "improving">>, <<"k1", "escalated">>,
                  <<"k1", "active">>, <<"k2", "resolved">>}}

\* The calls started so far
Started == calls["A"].callNo + calls["B"].callNo

\* Caller c, having no call running, starts its next call
StartCall(c) ==
  /\ calls[c].pc \in {"absent", "done"}
  /\ Started < MaxCalls
  /\ \E f \in ConcernCalls(c) :
       calls' = [calls EXCEPT ![c] = [f EXCEPT !.callNo = calls[c].callNo + 1]]
  /\ UNCHANGED <<store, autoInc, clock, txs, pool, config, faults>>

InitConcern ==
  /\ \E s \in {EmptyStore, SeededStore} : InitStore(s)
  /\ gapLocks = TRUE
  /\ calls = [c \in CallIds |-> Absent]

NextConcern ==
  \E c \in CallIds :
    \/ StartCall(c)
    \/ UpsertConcernStatement(c)
    \/ ReadBack(c)
    \/ UpdateConcernStatus(c)
    \/ PoolStatementFails(c)
    \/ GetConnection(c)
    \/ BeginTransaction(c)
    \/ UpsertConcern(c)
    \/ ReadConcern(c)
    \/ Commit(c)
    \/ Blocked(c)
    \/ StatementFails(c)
    \/ Rollback(c)

SpecConcern == InitConcern /\ [][NextConcern]_vars

\* ------------------------------------------------------------------------
\* Ingest calls that carry medical_facts, one after the other
\* ------------------------------------------------------------------------

\* ingest(t, {profileUpdates: {medical_facts: facts}, render: false})
FactsOpts(facts) ==
  [profileUpdates |-> Updates([medical_facts |-> facts]),
   episode |-> NoEpisode, concerns |-> <<>>, render |-> FALSE]

\* The lists the callers send: empty, [A], [A, B], and [B, {}] whose second
\* entry has neither fact nor text
FactLists ==
  {<<>>, <<Fact("A")>>, <<Fact("A"), Fact("B")>>,
   <<Fact("B"), [fact |-> Undef, text |-> Undef]>>}

\* Caller c starts its next ingest once no other call is running
StartIngest(c) ==
  /\ \A d \in CallIds : calls[d].pc \in {"absent", "done"}
  /\ Started < MaxCalls
  /\ \E facts \in FactLists :
       calls' = [calls EXCEPT ![c] =
         [Frame("ingest", "t1", FactsOpts(facts), 0, "getConnection")
            EXCEPT !.callNo = calls[c].callNo + 1]]
  /\ UNCHANGED <<store, autoInc, clock, txs, pool, config, faults>>

InitFacts ==
  /\ \E s \in {EmptyStore, SeededStore} : InitStore(s)
  /\ gapLocks \in BOOLEAN
  /\ calls = [c \in CallIds |-> Absent]

NextFacts ==
  \E c \in CallIds :
    \/ StartIngest(c)
    \/ GetConnection(c)
    \/ BeginTransaction(c)
    \/ SelectForUpdate(c)
    \/ WriteProfile(c)
    \/ Commit(c)
    \/ StatementFails(c)
    \/ Rollback(c)

SpecFacts == InitFacts /\ [][NextFacts]_vars

\* ------------------------------------------------------------------------
\* mergeMedicalFacts on its own: a caller merges incoming into existing and
\* merges incoming into the result once more
\* ------------------------------------------------------------------------

\* The entries of the lists: with a fact, with a text only, with neither, and
\* with an empty fact next to a text
FactEntries ==
  {Fact("A"), Fact("B"), [fact |-> Undef, text |-> "A"], [fact |-> Undef, text |-> Undef],
   [fact |-> "", text |-> "B"]}

\* The lists of at most n entries
FactListsUpTo(n) == UNION {[1..m -> FactEntries] : m \in 0..n}

MergeOpts(existing, incoming) ==
  [profileUpdates |-> NoUpdates, episode |-> NoEpisode, concerns |-> <<>>,
   render |-> FALSE, existing |-> existing, incoming |-> incoming]

\* merged = mergeMedicalFacts(existing, incoming)
MergeFacts(c) ==
  LET f == calls[c]
  IN /\ f.kind = "mergeMedicalFacts" /\ f.pc = "merge"
     /\ calls' = [calls EXCEPT
          ![c].pc = "mergeAgain",
          ![c].updates = [medical_facts |->
                            mergeMedicalFacts(f.opts.existing, f.opts.incoming)]]
     /\ UNCHANGED <<store, autoInc, clock, txs, pool, config, faults>>

\* return mergeMedicalFacts(merged, incoming)
MergeFactsAgain(c) ==
  LET f == calls[c]
  IN /\ f.kind = "mergeMedicalFacts" /\ f.pc = "mergeAgain"
     /\ calls' = [calls EXCEPT ![c] =
          Returned(f, mergeMedicalFacts(f.updates["medical_facts"], f.opts.incoming))]
     /\ UNCHANGED <<store, autoInc, clock, txs, pool, config, faults>>

InitMerge ==
  /\ InitStore(EmptyStore)
  /\ gapLocks = TRUE
  /\ \E existing \in FactListsUpTo(MaxFacts), incoming \in FactListsUpTo(MaxFacts) :
       calls = [c \in CallIds |->
                  IF c = "A"
                  THEN Frame("mergeMedicalFacts", "t1", MergeOpts(existing, incoming), 0, "merge")
                  ELSE Absent]

NextMerge == \E c \in CallIds : MergeFacts(c) \/ MergeFactsAgain(c)

SpecMerge == InitMerge /\ [][NextMerge]_vars

\* ------------------------------------------------------------------------
\* Profile writes of upsertProfile and ingest on a document with nested
\* members
\* ------------------------------------------------------------------------

\* A stored profile whose baby_snapshot has two members
NestedProfile ==
  [exists |-> TRUE, version |-> 1,
   data |-> [medical_facts |-> <<Fact("X")>>,
             baby_snapshot |-> [name |-> "n0", weight |-> "w0"],
             next_actions |-> <<Fact("a0")>>]]

NestedStore == [EmptyStore EXCEPT !.profiles["t1"] = NestedProfile]

\* The updates the callers send (no top-level member is null): one member of
\* a nested object, a null member, a new object, an array, and facts
PatchDocs ==
  {[baby_snapshot |-> [weight |-> "w1"]],
   [baby_snapshot |-> [name |-> JNull]],
   [feeding_profile |-> [mode |-> "m1", amount |-> JNull]],
   [next_actions |-> <<Fact("a1")>>],
   [medical_facts |-> <<Fact("A")>>]}

PatchOpts(doc) ==
  [profileUpdates |-> Updates(doc), episode |-> NoEpisode, concerns |-> <<>>,
   render |-> FALSE]

\* upsertProfile(t1, doc, v) and ingest(t1, {profileUpdates: doc, render: false})
PatchCalls ==
  {Frame("upsertProfile", "t1", PatchOpts(doc), v, "upsert") :
     doc \in PatchDocs, v \in 0..MaxExpected}
  \cup {Frame("ingest", "t1", PatchOpts(doc), 0, "getConnection") : doc \in PatchDocs}

InitPatch ==
  /\ \E s \in {EmptyStore, NestedStore} : InitStore(s)
  /\ gapLocks \in BOOLEAN
  /\ calls \in [CallIds -> PatchCalls]

NextPatch ==
  \E c \in CallIds :
    \/ UpsertProfileStep(c)
    \/ GetConnection(c)
    \/ BeginTransaction(c)
    \/ SelectForUpdate(c)
    \/ WriteProfile(c)
    \/ Commit(c)
    \/ Blocked(c)
    \/ DeadlockDetected(c)
    \/ Rollback(c)

SpecPatch == InitPatch /\ [][NextPatch]_vars

\* ------------------------------------------------------------------------
\* The HTTP entry points POST /v1/admin/memory/ingest and .../ingest-raw
\* ------------------------------------------------------------------------

\* ALLOWED_PROFILE_KEYS
AllowedProfileKeys == ArrayKeys \cup ObjectKeys

\* Object.fromEntries: the object whose entries, in insertion order, are the
\* <<key, value>> pairs of raw (keys are distinct)
FromEntries(raw) ==
  [k \in {raw[i][1] : i \in 1..Len(raw)} |->
     raw[CHOOSE i \in 1..Len(raw) : raw[i][1] = k][2]]

\* `${key}: ${desc}` for the keys and string values the requests carry
KeyDesc(key, desc) ==
  CASE key = "medications" /\ desc = "m1" -> "medications: m1"
    [] key = "sleepPosition" /\ desc = "s1" -> "sleepPosition: s1"
    [] key = "environment" /\ desc = "e1" -> "environment: e1"

\* The spillover of entries from..Len(raw): one fact "key: desc" per entry
\* whose key is not allowed. The values of such keys are strings here, so
\* desc is the value.
RECURSIVE Spillover(_, _)
Spillover(raw, from) ==
  IF from > Len(raw) THEN <<>>
  ELSE (IF raw[from][1] \in AllowedProfileKeys THEN <<>>
        ELSE <<Fact(KeyDesc(raw[from][1], raw[from][2]))>>)
         \o Spillover(raw, from + 1)

\* normalizeProfileUpdates(raw), raw given by its entries
normalizeProfileUpdates(raw) ==
  LET allowed == SelectSeq(raw, LAMBDA e : e[1] \in AllowedProfileKeys)
      normalized == FromEntries(allowed)
      spillover == Spillover(raw, 1)
      existing == IF "medical_facts" \in DOMAIN normalized
                  THEN normalized["medical_facts"] ELSE <<>>
  IN IF Len(spillover) > 0
     THEN [k \in DOMAIN normalized \cup {"medical_facts"} |->
             IF k = "medical_facts" THEN existing \o spillover ELSE normalized[k]]
     ELSE normalized

\* The profileUpdates of a request body, or of the model's answer, by entries
RawUpdates ==
  {<< <<"medical_facts", <<Fact("A")>>>> >>,
   << <<"medications", "m1">> >>,
   << <<"medical_facts", <<Fact("A")>>>>, <<"sleepPosition", "s1">> >>,
   << <<"environment", "e1">>, <<"baby_snapshot", [name |-> "A"]>> >>}

\* The bodies of POST /v1/admin/memory/ingest: with profileUpdates, and one
\* without tenantId
IngestBodies ==
  {[tenantId |-> "t1", profileUpdates |-> raw] : raw \in RawUpdates}
    \cup {[tenantId |-> "", profileUpdates |-> << <<"medical_facts", <<Fact("A")>>>> >>]}

\* One message of an ingest-raw body
Message(role) == [role |-> role, content |-> "hi"]

\* The bodies of POST /v1/admin/memory/ingest-raw: two that pass validation,
\* with and without a source, and four that do not (messages within the
\* limits of count and size)
RawBodies ==
  {[tenantId |-> "t1", channel |-> "im", messages |-> <<Message("parent")>>, source |-> src] :
     src \in {Undef, "app"}}
    \cup {[tenantId |-> "", channel |-> "im", messages |-> <<Message("parent")>>, source |-> Undef],
          [tenantId |-> "t1", channel |-> "", messages |-> <<Message("parent")>>, source |-> Undef],
          [tenantId |-> "t1", channel |-> "im", messages |-> <<>>, source |-> Undef],
          [tenantId |-> "t1", channel |-> "im",
           messages |-> <<Message("parent"), Message("assistant")>>, source |-> Undef]}

\* new Set(["parent", "caregiver", "system"])
ValidRoles == {"parent", "caregiver", "system"}

\* The checks of the ingest-raw handler before it does anything: TRUE when
\* the body is answered with 400
FailsValidation(body) ==
  \/ body.tenantId = ""
  \/ body.channel = ""
  \/ Len(body.messages) = 0
  \/ \E i \in 1..Len(body.messages) :
       body.messages[i].role \notin ValidRoles \/ body.messages[i].content = ""

\* `[${m.role}] ${m.content}` for the messages the requests carry
FallbackLine(m) ==
  CASE m.role = "parent" /\ m.content = "hi" -> "[parent] hi"
    [] m.role = "assistant" /\ m.content = "hi" -> "[assistant] hi"

\* buildFallbackContent(): the lines of the messages
buildFallbackContent(body) == [i \in 1..Len(body.messages) |-> FallbackLine(body.messages[i])]

\* body.source ?? "ingest-raw"
SourceOf(body) == IF body.source = Undef THEN "ingest-raw" ELSE body.source

\* What extractFromRawMessages can return: a summary, profileUpdates (by
\* entries, before normalizeProfileUpdates) and concerns, which carry no
\* source
Answers ==
  {[episodeSummary |-> <<"summary">>, profileUpdates |-> raw,
    concerns |-> IF Len(raw) = 1 THEN <<>> ELSE <<Concern("k1", "K1", "high", "e1", Undef)>>] :
     raw \in RawUpdates \cup {<<>>}}

NoAnswer == [episodeSummary |-> <<>>, profileUpdates |-> <<>>, concerns |-> <<>>]

\* A request waiting in its handler
Request(path, body) ==
  [Frame("request", "t1",
         [profileUpdates |-> NoUpdates, episode |-> NoEpisode, concerns |-> <<>>,
          render |-> TRUE], 0, path)
     EXCEPT !.callNo = 0,
            !.request = [path |-> path, body |-> body, status |-> 0, extractCalls |-> 0,
                         ingestCalls |-> 0, extractionFailed |-> FALSE,
                         extraction |-> NoAnswer]]

\* sendJson(res, status, ...) ; return true
Answered(f, status) == [f EXCEPT !.pc = "done", !.request.status = status]

\* em.ingest(body.tenantId, opts) of the handler of request frame f
IngestCalled(f, opts) ==
  [Frame("ingest", f.request.body.tenantId, opts, 0, "getConnection")
     EXCEPT !.request = [f.request EXCEPT !.ingestCalls = @ + 1]]

\* POST /v1/admin/memory/ingest: 400 without tenantId; otherwise
\* body.profileUpdates is handed to ingest as it came
PostIngest(c) ==
  LET f == calls[c]
      body == f.request.body
  IN /\ f.kind = "request" /\ f.pc = "postIngest"
     /\ calls' = [calls EXCEPT ![c] =
          IF body.tenantId = "" THEN Answered(f, 400)
          ELSE IngestCalled(f, [profileUpdates |-> Updates(FromEntries(body.profileUpdates)),
                                episode |-> NoEpisode, concerns |-> <<>>, render |-> TRUE])]
     /\ UNCHANGED <<store, autoInc, clock, txs, pool, config, faults>>

\* POST /v1/admin/memory/ingest-raw: the body is read and validated; a valid
\* one goes on to em.getProfile
PostIngestRaw(c) ==
  LET f == calls[c]
  IN /\ f.kind = "request" /\ f.pc = "postIngestRaw"
     /\ calls' = [calls EXCEPT ![c] =
          IF FailsValidation(f.request.body) THEN Answered(f, 400)
          ELSE [f EXCEPT !.pc = "getProfile"]]
     /\ UNCHANGED <<store, autoInc, clock, txs, pool, config, faults>>

\* existingProfile = (await em.getProfile(tenantId))?.profileData, or null
\* when the read fails: the error is ignored
GetExistingProfile(c) ==
  LET f == calls[c]
  IN /\ f.kind = "request" /\ f.pc = "getProfile"
     /\ \E failed \in BOOLEAN :
          calls' = [calls EXCEPT ![c].pc = "extract",
                                 ![c].current = IF failed THEN NoRow
                                                ELSE profiles[f.request.body.tenantId]]
     /\ UNCHANGED <<store, autoInc, clock, txs, pool, config, faults>>

\* The ingest options built from a successful extraction
ExtractedOpts(body, extraction) ==
  LET profileUpdates == normalizeProfileUpdates(extraction.profileUpdates)
  IN [profileUpdates |-> IF DOMAIN profileUpdates = {} THEN NoUpdates
                         ELSE Updates(profileUpdates),
      episode |-> Episode("conversation", body.channel, extraction.episodeSummary),
      concerns |-> [i \in 1..Len(extraction.concerns) |->
                      [extraction.concerns[i] EXCEPT !.source = SourceOf(body)]],
      render |-> TRUE]

\* The ingest options of the fallback: the raw messages as one episode
FallbackOpts(body) ==
  [profileUpdates |-> NoUpdates,
   episode |-> Episode("conversation", body.channel, buildFallbackContent(body)),
   concerns |-> <<>>,
   render |-> TRUE]

\* await extractFromRawMessages(...): it throws, and the handler calls
\* em.ingest with the fallback episode, or it returns the validated and
\* normalized answer of the model, and the handler calls em.ingest with it
ExtractFromRawMessages(c) ==
  LET f == calls[c]
      body == f.request.body
      g == [f EXCEPT !.request.extractCalls = @ + 1]
  IN /\ f.kind = "request" /\ f.pc = "extract"
     /\ \/ calls' = [calls EXCEPT ![c] =
             IngestCalled([g EXCEPT !.request.extractionFailed = TRUE], FallbackOpts(body))]
        \/ \E extraction \in Answers :
             calls' = [calls EXCEPT ![c] =
               IngestCalled([g EXCEPT !.request.extraction = extraction],
                            ExtractedOpts(body, extraction))]
     /\ UNCHANGED <<store, autoInc, clock, txs, pool, config, faults>>

\* A variant that stores the raw messages when the ingest of the extracted
\* data fails
SendResponseOrFallback(c) ==
  LET f == calls[c]
  IN /\ f.kind = "ingest" /\ f.pc = "done"
     /\ f.request.path # "none" /\ f.request.status = 0
     /\ calls' = [calls EXCEPT ![c] =
          IF f.outcome.status = "returned" THEN [f EXCEPT !.request.status = 200]
          ELSE IF f.request.path = "postIngestRaw" /\ f.request.ingestCalls = 1
               THEN IngestCalled(f, FallbackOpts(f.request.body))
               ELSE [f EXCEPT !.request.status = 500]]
     /\ UNCHANGED <<store, autoInc, clock, txs, pool, config, faults>>

\* em.ingest has settled: sendJson(res, 200, { ok: true, ... }), or the
\* catch block's sendJson(res, 500, ...)
SendResponse(c) ==
  LET f == calls[c]
  IN /\ f.kind = "ingest" /\ f.pc = "done"
     /\ f.request.path # "none" /\ f.request.status = 0
     /\ calls' = [calls EXCEPT ![c].request.status =
                    IF f.outcome.status = "returned" THEN 200 ELSE 500]
     /\ UNCHANGED <<store, autoInc, clock, txs, pool, config, faults>>

\* Caller A sends any of the requests, caller B one that passes validation
InitEntry ==
  /\ \E s \in {EmptyStore, SeededStore} : InitStore(s)
  /\ gapLocks = TRUE
  /\ \E ra \in {Request("postIngest", body) : body \in IngestBodies}
                 \cup {Request("postIngestRaw", body) : body \in RawBodies},
        rb \in {Request("postIngest", [tenantId |-> "t1",
                                       profileUpdates |-> << <<"medications", "m1">> >>]),
                Request("postIngestRaw", [tenantId |-> "t1", channel |-> "im",
                                          messages |-> <<Message("parent")>>,
                                          source |-> Undef])} :
       calls = [c \in CallIds |-> IF c = "A" THEN ra ELSE rb]

NextEntry ==
  \E c \in CallIds :
    \/ PostIngest(c)
    \/ PostIngestRaw(c)
    \/ GetExistingProfile(c)
    \/ ExtractFromRawMessages(c)
    \/ SendResponse(c)
    \/ IngestStep(c)
    \/ Blocked(c)
    \/ DeadlockDetected(c)
    \/ (faults = 0 /\ StatementFails(c))

SpecEntry == InitEntry /\ [][NextEntry]_vars

\* ------------------------------------------------------------------------
\* Ingest calls without profileUpdates that interleave on concern and
\* episode rows
\* ------------------------------------------------------------------------

\* ingest(t1, {episode, concerns: one per key of keys, in that order,
\* render: false}) of caller c
InterleaveOpts(c, keys) ==
  [profileUpdates |-> NoUpdates,
   episode |-> Episode("conversation", "im", <<c>>),
   concerns |-> [i \in 1..Len(keys) |-> Concern(keys[i], keys[i], "low", c, c)],
   render |-> FALSE]

\* The key lists of the calls: both orders of two keys, and one key twice
KeyLists == {<<"k1", "k2">>, <<"k2", "k1">>, <<"k1", "k1">>}

\* Caller c, having no call running, starts its next ingest
StartInterleaved(c) ==
  /\ calls[c].pc \in {"absent", "done"}
  /\ Started < MaxCalls
  /\ \E keys \in KeyLists :
       calls' = [calls EXCEPT ![c] =
         [Frame("ingest", "t1", InterleaveOpts(c, keys), 0, "getConnection")
            EXCEPT !.callNo = calls[c].callNo + 1]]
  /\ UNCHANGED <<store, autoInc, clock, txs, pool, config, faults>>

InitInterleave ==
  /\ \E s \in {EmptyStore, SeededStore} : InitStore(s)
  /\ gapLocks = TRUE
  /\ calls = [c \in CallIds |-> Absent]

NextInterleave ==
  \E c \in CallIds :
    \/ StartInterleaved(c)
    \/ GetConnection(c)
    \/ BeginTransaction(c)
    \/ InsertEpisode(c)
    \/ UpsertConcern(c)
    \/ ReadConcern(c)
    \/ Commit(c)
    \/ Blocked(c)
    \/ DeadlockDetected(c)
    \/ Rollback(c)

SpecInterleave == InitInterleave /\ [][NextInterleave]_vars

\* ------------------------------------------------------------------------
\* ingest with any subset of its parts, next to an ingest of either tenant
\* ------------------------------------------------------------------------

\* The options of ingest: profileUpdates absent, {} or with a fact; an
\* episode or none; one concern or none; render false or not false
PartOpts(c) ==
  {[profileUpdates |-> u, episode |-> e, concerns |-> cs, render |-> r] :
     u \in {NoUpdates, Updates(EmptyDoc), Updates([medical_facts |-> <<Fact(c)>>])},
     e \in {NoEpisode, Episode("checkin", "im", <<c>>)},
     cs \in {<<>>, <<Concern("k1", "K1", "high", c, c)>>},
     r \in BOOLEAN}

\* ingest(t, {}) and ingest(t, everything)
OtherOpts(c) ==
  {FullOpts(c),
   [profileUpdates |-> NoUpdates, episode |-> NoEpisode, concerns |-> <<>>, render |-> TRUE]}

InitParts ==
  /\ \E s \in {EmptyStore, SeededStore} : InitStore(s)
  /\ gapLocks \in BOOLEAN
  /\ \E o \in PartOpts("A"), p \in OtherOpts("B"), t \in Tenants :
       calls = [c \in CallIds |->
                  IF c = "A" THEN Frame("ingest", "t1", o, 0, "getConnection")
                  ELSE Frame("ingest", t, p, 0, "getConnection")]

NextParts ==
  \E c \in CallIds :
    \/ IngestStep(c)
    \/ Blocked(c)
    \/ DeadlockDetected(c)

SpecParts == InitParts /\ [][NextParts]_vars

\* The same calls under fair scheduling: the event loop resumes a call whose
\* awaited statement has settled and sends the statement it reaches, and the
\* store's deadlock detector runs whenever a lock cycle stands
FairParts ==
  \A c \in CallIds :
    /\ WF_vars(IngestStep(c) \/ Blocked(c))
    /\ WF_vars(DeadlockDetected(c))

SpecPartsFair == InitParts /\ [][NextParts]_vars /\ FairParts

\* ------------------------------------------------------------------------
\* insertEpisode and renderMemoryFile next to ingest
\* ------------------------------------------------------------------------

NoOpts == [profileUpdates |-> NoUpdates, episode |-> NoEpisode, concerns |-> <<>>,
           render |-> TRUE]

\* The calls caller c can start: ingest of everything, of nothing, of an
\* episode alone; insertEpisode; renderMemoryFile
EpisodeCalls(c) ==
  {Frame("ingest", "t1", o, 0, "getConnection") :
     o \in {FullOpts(c), NoOpts,
            [NoOpts EXCEPT !.episode = Episode("conversation", "im", <<c>>),
                           !.render = FALSE]}}
  \cup {Frame("insertEpisode", "t1", [NoOpts EXCEPT !.episode = Episode("note", "web", <<c>>)],
              0, "insert")}
  \cup {[Frame("renderMemoryFile", "t1", NoOpts, 0, "reads") EXCEPT !.pending = RenderReads]}

\* Caller c, having no call running, starts its next call
StartEpisodeCall(c) ==
  /\ calls[c].pc \in {"absent", "done"}
  /\ Started < MaxCalls
  /\ \E f \in EpisodeCalls(c) :
       calls' = [calls EXCEPT ![c] = [f EXCEPT !.callNo = calls[c].callNo + 1]]
  /\ UNCHANGED <<store, autoInc, clock, txs, pool, config, faults>>

InitEpisodes ==
  /\ \E s \in {EmptyStore, SeededStore, ResolvedStore} : InitStore(s)
  /\ gapLocks = TRUE
  /\ calls = [c \in CallIds |-> Absent]

NextEpisodes ==
  \E c \in CallIds :
    \/ StartEpisodeCall(c)
    \/ InsertEpisodeStatement(c)
    \/ GetForRender(c)
    \/ WriteFileStatement(c)
    \/ IngestStep(c)
    \/ Blocked(c)
    \/ DeadlockDetected(c)

SpecEpisodes == InitEpisodes /\ [][NextEpisodes]_vars

\* ------------------------------------------------------------------------
\* assembleMemoryMarkdown on its own
\* ------------------------------------------------------------------------

\* The lengths of the episode contents: around the limit of truncate
ContentLengths == {0, 1, TruncateMax - 1, TruncateMax, TruncateMax + 1, MaxContent}

\* Contents of one repeated character, a letter or the dot of the marker
Contents == {[i \in 1..n |-> ch] : n \in ContentLengths, ch \in {"A", "."}}

\* The episodes handed to the compiler: at most two, newest first
EpisodeLists ==
  {<<>>}
    \cup {<<EpisodeRow(2, "t1", Episode("checkin", "im", s))>> : s \in Contents}
    \cup {<<EpisodeRow(2, "t1", Episode("checkin", "im", s)),
            EpisodeRow(1, "t1", Episode("note", "web", r))>> : s \in Contents, r \in Contents}

\* The profiles handed to the compiler: null, a row whose document is {}, a
\* row with an empty list only, and a row with data
ProfileInputs ==
  {NoRow,
   [exists |-> TRUE, version |-> 1, data |-> EmptyDoc],
   [exists |-> TRUE, version |-> 1, data |-> [medical_facts |-> <<>>]],
   SeedProfile}

ConcernLists == {<<>>, <<[SeedConcern EXCEPT !.status = "active", !.resolvedAt = <<>>]>>}

CompileOpts(profile, concernRows, episodeRows) ==
  [profileUpdates |-> NoUpdates, episode |-> NoEpisode, concerns |-> <<>>,
   render |-> TRUE, profile |-> profile, concernRows |-> concernRows,
   episodeRows |-> episodeRows]

\* return assembleMemoryMarkdown(profile, concerns, episodes)
Assemble(c) ==
  LET f == calls[c]
  IN /\ f.kind = "assembleMemoryMarkdown" /\ f.pc = "assemble"
     /\ calls' = [calls EXCEPT ![c] =
          Returned(f, assembleMemoryMarkdown(f.opts.profile, f.opts.concernRows,
                                             f.opts.episodeRows))]
     /\ UNCHANGED <<store, autoInc, clock, txs, pool, config, faults>>

InitCompile ==
  /\ InitStore(EmptyStore)
  /\ gapLocks = TRUE
  /\ \E p \in ProfileInputs, cs \in ConcernLists, es \in EpisodeLists :
       calls = [c \in CallIds |->
                  IF c = "A"
                  THEN Frame("assembleMemoryMarkdown", "t1", CompileOpts(p, cs, es), 0,
                             "assemble")
                  ELSE Absent]

NextCompile == \E c \in CallIds : Assemble(c)

SpecCompile == InitCompile /\ [][NextCompile]_vars

\* ------------------------------------------------------------------------
\* Claims about the retry of ingest (checked under SpecRetry)
\* ------------------------------------------------------------------------

IngestCalls == {c \in CallIds : calls[c].kind = "ingest"}

HasThrown(c) == calls[c].pc = "done" /\ calls[c].outcome.status = "thrown"
HasReturned(c) == calls[c].pc = "done" /\ calls[c].outcome.status = "returned"

\* C6: a single ingest call runs at most two transaction attempts; the second
\* is started only after the first failed with a deadlock error and was
\* rolled back, and a deadlock on the second attempt is thrown to the caller
\* without a third attempt.
C6_AtMostTwoAttempts ==
  \A c \in IngestCalls :
    LET f == calls[c] IN
    /\ f.stats.getConnection <= 2
    /\ f.stats.beginTransaction <= 2
    /\ f.stats.getConnection = 2 =>
         /\ Len(f.log) >= 1
         /\ f.log[1].error.errno = ErDeadlock
         /\ f.log[1].rollback = "resolved"
    /\ (Len(f.log) = 2 /\ f.log[2].error.errno = ErDeadlock) =>
         /\ HasThrown(c)
         /\ f.stats.getConnection = 2
         /\ f.log[2].rollback = "resolved" => f.outcome.error = f.log[2].error

\* A call threw the deadlock of its second attempt
C6_Witness ==
  \E c \in IngestCalls :
    /\ HasThrown(c)
    /\ Len(calls[c].log) = 2
    /\ calls[c].log[2].error.errno = ErDeadlock
    /\ calls[c].outcome.error = calls[c].log[2].error

IsOtherError(err) == err.errno \notin {ErDeadlock, ErLockWait}

C10_RollbackFailurePropagates ==
  \A c \in IngestCalls :
    LET f == calls[c] IN
    /\ f.stats.rollback = Len(f.log)
    /\ f.pc = "done" =>
         f.stats.beginTransaction <= f.stats.rollback + f.stats.commit
    /\ \A i \in 1..Len(f.log) :
         f.log[i].rollback = "rejected" =>
           /\ HasThrown(c)
           /\ i = Len(f.log)
           /\ f.stats.getConnection = i
           /\ f.outcome.error = ConnLostErr("rollback")
           /\ f.outcome.error # f.log[i].error

\* The rollback after a deadlock on the first attempt failed, and the call
\* threw the rollback's error without a second attempt
C10_Witness ==
  \E c \in IngestCalls :
    /\ HasThrown(c)
    /\ Len(calls[c].log) = 1
    /\ calls[c].log[1].error.errno = ErDeadlock
    /\ calls[c].log[1].rollback = "rejected"
    /\ calls[c].outcome.error = ConnLostErr("rollback")
    /\ calls[c].stats.getConnection = 1

\* ------------------------------------------------------------------------
\* ingest as one uninterrupted successful attempt
\* ------------------------------------------------------------------------

\* The concern loop of ingest over the concerns cs, run alone on the rows of
\* one tenant: every concern is upserted and read back.
RECURSIVE ConcernsApplied(_, _, _, _, _)
ConcernsApplied(rows, cs, nextId, now, out) ==
  IF cs = <<>>
  THEN [rows |-> rows, nextId |-> nextId, now |-> now, results |-> out]
  ELSE LET cn == Head(cs)
           row == rows[cn.concernKey]
           new == UpsertedConcern(row, nextId, cn, now)
       IN ConcernsApplied([rows EXCEPT ![cn.concernKey] = new], Tail(cs),
                          IF row.exists THEN nextId ELSE nextId + 1, now + 1,
                          Append(out, ConcernResult(new)))

\* The store and the value returned when ingest(t, o) runs alone on store s
\* and none of its statements fails.
IngestApplied(s, t, o) ==
  LET current == s.profiles[t]
      profile ==
        IF ~HasProfileUpdates(o) THEN current
        ELSE IF current.exists
             THEN UpdateRow(current, MergedUpdates(current, o.profileUpdates.doc))
             ELSE InsertOrMergeRow(current, MergedUpdates(current, o.profileUpdates.doc))
      episodeRows ==
        IF o.episode.given
        THEN s.episodes \cup {EpisodeRow(s.autoInc.episodes, t, o.episode)}
        ELSE s.episodes
      applied == ConcernsApplied(s.concerns[t], o.concerns, s.autoInc.concerns, s.clock, <<>>)
      markdownContent ==
        assembleMemoryMarkdown(profile,
          ActiveConcernRows({applied.rows[k] : k \in ConcernKeys}),
          RecentEpisodeRows({e \in episodeRows : e.tenantId = t}, RenderLimit))
      rendered == o.render /\ markdownContent.exists
  IN [profiles |-> [s.profiles EXCEPT ![t] = profile],
      episodes |-> episodeRows,
      concerns |-> [s.concerns EXCEPT ![t] = applied.rows],
      files |-> IF rendered
                THEN [s.files EXCEPT ![t] = [exists |-> TRUE, content |-> markdownContent]]
                ELSE s.files,
      autoInc |-> [episodes |-> IF o.episode.given THEN s.autoInc.episodes + 1
                                ELSE s.autoInc.episodes,
                   concerns |-> applied.nextId],
      clock |-> applied.now,
      results |->
        (IF HasProfileUpdates(o)
         THEN "profile" :> [updated |-> TRUE,
                            newVersion |-> IF current.exists THEN current.version + 1 ELSE 1]
         ELSE EmptyDoc)
        @@ (IF o.episode.given THEN "episode" :> [id |-> s.autoInc.episodes] ELSE EmptyDoc)
        @@ (IF Len(o.concerns) > 0 THEN "concerns" :> applied.results ELSE EmptyDoc)
        @@ (IF o.render THEN "render" :> [rendered |-> rendered] ELSE EmptyDoc)]

\* The committed tables
Tables ==
  [profiles |-> profiles, episodes |-> episodes, concerns |-> concerns, files |-> files]

TablesOf(s) ==
  [profiles |-> s.profiles, episodes |-> s.episodes, concerns |-> s.concerns,
   files |-> s.files]

\* A result / the tables with the store-assigned ids and timestamps blanked
WithoutIds(results) ==
  [k \in DOMAIN results |->
     IF k = "episode" THEN [results[k] EXCEPT !.id = 0]
     ELSE IF k = "concerns"
          THEN [j \in DOMAIN results[k] |-> [results[k][j] EXCEPT !.id = 0]]
          ELSE results[k]]

WithoutTimes(tables) ==
  [tables EXCEPT
     !.concerns = [t \in Tenants |-> [k \in ConcernKeys |->
                     IF tables.concerns[t][k].exists
                     THEN [tables.concerns[t][k] EXCEPT !.firstSeenAt = 0, !.lastSeenAt = 0]
                     ELSE tables.concerns[t][k]]]]

TablesWithoutIds(tables) ==
  [WithoutTimes(tables) EXCEPT
     !.episodes = {[e EXCEPT !.id = 0] : e \in @},
     !.concerns = [t \in Tenants |-> [k \in ConcernKeys |->
                     IF @[t][k].exists THEN [@[t][k] EXCEPT !.id = 0] ELSE @[t][k]]]]

\* The call returned after a deadlock on its first attempt
RetrySucceeded(c) ==
  /\ HasReturned(c)
  /\ Len(calls[c].log) = 1
  /\ calls[c].log[1].error.errno = ErDeadlock

\* C7, as stated: an ingest call whose first attempt fails with a deadlock
\* and whose retry succeeds leaves exactly one committed application of its
\* sub-writes and returns a result of the same shape and values as a call
\* that succeeded on its first attempt from the same starting state.
C7_RetryEquivalent ==
  \A c \in IngestCalls :
    RetrySucceeded(c) =>
      LET once == IngestApplied(start, calls[c].tenantId, calls[c].opts) IN
      /\ WithoutTimes(Tables) = WithoutTimes(TablesOf(once))
      /\ calls[c].outcome.value = once.results

\* C7, amended: a call that returns on its first attempt leaves exactly the
\* store and the result of one application; a call whose first attempt fails
\* with a deadlock and whose retry succeeds leaves one application and the
\* same result except for the ids the store assigns (the ids the rolled-back
\* attempt consumed are not reused) and the times of the writes.
C7_RetryEquivalentButIds ==
  \A c \in IngestCalls :
    LET f == calls[c]
        once == IngestApplied(start, f.tenantId, f.opts)
    IN /\ (HasReturned(c) /\ f.log = <<>>) =>
            /\ Tables = TablesOf(once)
            /\ autoInc = once.autoInc
            /\ f.outcome.value = once.results
       /\ RetrySucceeded(c) =>
            /\ TablesWithoutIds(Tables) = TablesWithoutIds(TablesOf(once))
            /\ WithoutIds(f.outcome.value) = WithoutIds(once.results)
            /\ f.stats.commit = 1
            /\ autoInc.episodes >= once.autoInc.episodes
            /\ autoInc.concerns >= once.autoInc.concerns

\* A retry succeeded and returned an episode id other than the one a first
\* attempt would have returned
C7_Witness ==
  \E c \in IngestCalls :
    /\ RetrySucceeded(c)
    /\ calls[c].opts.episode.given
    /\ calls[c].outcome.value["episode"].id
         # IngestApplied(start, calls[c].tenantId, calls[c].opts).results["episode"].id

\* ------------------------------------------------------------------------
\* Claims about concurrent ingest calls (checked under Spec)
\* ------------------------------------------------------------------------

\* The fact texts of the committed profile of tenant t
StoredFactTexts(t) ==
  IF profiles[t].exists /\ "medical_facts" \in DOMAIN profiles[t].data
  THEN {FactText(profiles[t].data["medical_facts"][i]) :
          i \in 1..Len(profiles[t].data["medical_facts"])}
  ELSE {}

\* Something call c wrote is committed: its fact, its episode, its evidence
\* or a MEMORY.md that shows one of them
Marked(c) ==
  LET t == calls[c].tenantId IN
  \/ c \in StoredFactTexts(t)
  \/ \E e \in episodes : e.content = <<c>>
  \/ \E k \in ConcernKeys :
       /\ concerns[t][k].exists
       /\ \E i \in 1..Len(concerns[t][k].evidence) : concerns[t][k].evidence[i].source = c
  \/ /\ files[t].exists
     /\ \/ \E i \in 1..Len(files[t].content.medical_facts.lines) :
             files[t].content.medical_facts.lines[i] = c
        \/ \E i \in 1..Len(files[t].content.episodes) :
             files[t].content.episodes[i].text = <<c>>

\* The calls for tenant t that returned
ReturnedFor(t) == {c \in IngestCalls : calls[c].tenantId = t /\ HasReturned(c)}

StartVersion(t) == IF start.profiles[t].exists THEN start.profiles[t].version ELSE 0
StoredVersion(t) == IF profiles[t].exists THEN profiles[t].version ELSE 0

StoredMentions(rows, k) == IF rows[k].exists THEN rows[k].mentionCount ELSE 0

\* C1: if an ingest call ends by throwing, none of its sub-writes is
\* committed: the tenant's committed profile data and version, episode set,
\* concern rows and rendered artifact show no effect of the call.  The
\* committed version, episodes and mentions count the calls that returned
\* and nothing else.
C1_FailedIngestCommitsNothing ==
  /\ \A c \in IngestCalls : HasThrown(c) => ~Marked(c)
  /\ \A t \in Tenants :
       /\ StoredVersion(t) = StartVersion(t)
            + Cardinality({c \in ReturnedFor(t) : HasProfileUpdates(calls[c].opts)})
       /\ Cardinality({e \in episodes : e.tenantId = t})
            = Cardinality({e \in start.episodes : e.tenantId = t})
                + Cardinality({c \in ReturnedFor(t) : calls[c].opts.episode.given})
       /\ \A k \in ConcernKeys :
            StoredMentions(concerns[t], k) = StoredMentions(start.concerns[t], k)
              + Cardinality({c \in ReturnedFor(t) :
                   \E i \in 1..Len(calls[c].opts.concerns) :
                     calls[c].opts.concerns[i].concernKey = k})

\* A call threw the error of its concern step after it had inserted its
\* episode, while the other call's writes are committed
C1_Witness ==
  \E c \in IngestCalls : \E d \in IngestCalls \ {c} :
    /\ HasThrown(c)
    /\ calls[c].outcome.error.at = "upsertConcern"
    /\ calls[c].outcome.error.errno = ErDupEntry
    /\ autoInc.episodes = start.autoInc.episodes + 2
    /\ HasReturned(d)
    /\ Marked(d)

\* C2: for any initial state of a tenant (with or without a profile row),
\* two concurrent ingest calls for that tenant, each adding a distinct new
\* medical fact, both succeed and the final stored medical_facts contains
\* both facts (no statement fails for a reason outside the two calls).
C2_NoLostUpdate ==
  ((\A c \in CallIds : calls[c].pc = "done") /\ faults = 0) =>
    \A c \in CallIds : HasReturned(c) /\ c \in StoredFactTexts(calls[c].tenantId)

\* The transaction of call c is between its locked profile read and its
\* commit or rollback
InProfileSection(c) ==
  /\ calls[c].kind = "ingest"
  /\ txs[c].open
  /\ calls[c].updates # EmptyDoc

\* C3: ingest calls that carry non-empty profileUpdates are serialized by the
\* profile lock: at most one such transaction per tenant is between its
\* locked profile read and its commit or rollback, so the row a call writes
\* replaces the version it read.
C3_ProfileStepSerialized ==
  /\ \A t \in Tenants :
       Cardinality({c \in IngestCalls : calls[c].tenantId = t /\ InProfileSection(c)}) <= 1
  /\ \A c \in IngestCalls :
       txs[c].profile.written => txs[c].profile.row.version = calls[c].currentVersion + 1

\* ------------------------------------------------------------------------
\* Claims about the profile version (checked under SpecProfile)
\* ------------------------------------------------------------------------

UpsertCalls == {c \in CallIds : calls[c].kind = "upsertProfile"}

\* The value call c returned reports a profile write
ReportsProfileWrite(f) ==
  /\ f.pc = "done"
  /\ f.outcome.status = "returned"
  /\ IF f.kind = "ingest" THEN "profile" \in DOMAIN f.outcome.value
     ELSE f.outcome.value.updated

\* C4: every committed profile write, whether by upsertProfile or by the
\* profile step of ingest, increases the tenant's stored version by exactly
\* 1; the first write creates the row with version 1; the stored version
\* never decreases and is unchanged by any call that does not commit a
\* profile write.
C4_VersionIncrements ==
  [][\A t \in Tenants :
       LET old == profiles[t]
           new == profiles'[t]
           oldVersion == IF old.exists THEN old.version ELSE 0
           finishing == {c \in CallIds : calls[c].tenantId = t /\ calls[c].pc # "done"
                                          /\ calls'[c].pc = "done"}
       IN /\ old.exists => new.exists /\ new.version >= old.version
          /\ new # old =>
               /\ new.exists
               /\ new.version = oldVersion + 1
               /\ \E c \in finishing : ReportsProfileWrite(calls'[c])
          /\ \A c \in finishing :
               IF ReportsProfileWrite(calls'[c])
               THEN new.exists /\ new.version = oldVersion + 1
               ELSE new = old]_vars

\* An upsertProfile and an ingest both wrote the profile of a tenant that had
\* none: the row was created with version 1 and is now at version 2
C4_Witness ==
  /\ ~start.profiles["t1"].exists
  /\ \E c \in UpsertCalls : ReportsProfileWrite(calls[c])
  /\ \E c \in IngestCalls : ReportsProfileWrite(calls[c])
  /\ profiles["t1"].exists
  /\ profiles["t1"].version = 2

\* Call c returned success on the second UPDATE, after its expectedVersion
\* turned out older than the stored version
WroteAfterStale(c) ==
  /\ calls[c].kind = "upsertProfile"
  /\ HasReturned(c)
  /\ calls[c].expectedVersion # 0
  /\ calls[c].outcome.value.updated
  /\ calls[c].outcome.value.newVersion > calls[c].expectedVersion + 1

\* C5: a stale expectedVersion never silently overwrites newer data: when
\* upsertProfile(T, updates, v) is called with v different from 0 and older
\* than the stored version because another writer committed in between, the
\* call does not replace values written by the newer version with its own
\* updates while reporting success.
C5_StaleNeverOverwrites ==
  \A c \in UpsertCalls : \A d \in CallIds \ {c} :
    (WroteAfterStale(c) /\ ReportsProfileWrite(calls[d])
       /\ "baby_snapshot" \in DOMAIN calls[d].opts.profileUpdates.doc)
      => profiles[calls[c].tenantId].data["baby_snapshot"]["name"]
           # calls[c].opts.profileUpdates.doc["baby_snapshot"]["name"]

\* ------------------------------------------------------------------------
\* Claims about the connections of ingest (checked under Spec)
\* ------------------------------------------------------------------------

\* Call c holds a connection of the pool: it is between getConnection and
\* the release of finally
HoldsConnection(c) ==
  calls[c].kind = "ingest" /\ calls[c].pc \notin {"getConnection", "done", "absent"}

\* C11: every connection that ingest acquires from the pool is released
\* exactly once on every path (commit, statement failure, commit failure,
\* rollback failure, both attempts of a deadlock retry): after an ingest call
\* has returned or thrown it holds no connection and no open transaction.
C11_ConnectionReleased ==
  /\ pool = Cardinality({c \in IngestCalls : HoldsConnection(c)})
  /\ \A c \in IngestCalls :
       LET f == calls[c] IN
       /\ f.stats.getConnection = f.stats.release + (IF HoldsConnection(c) THEN 1 ELSE 0)
       /\ f.stats.release = f.stats.commit + f.stats.rollback
       /\ ~HoldsConnection(c) => ~txs[c].open /\ txs[c].locks = {} /\ ~txs[c].waiting

\* A call threw the rejection of the rollback of its second attempt, after
\* the deadlock of its first: both of its connections are released
C11_Witness ==
  \E c \in IngestCalls :
    /\ HasThrown(c)
    /\ Len(calls[c].log) = 2
    /\ calls[c].log[1].error.errno = ErDeadlock
    /\ calls[c].log[2].rollback = "rejected"
    /\ calls[c].stats.getConnection = 2
    /\ calls[c].stats.release = 2
    /\ pool = Cardinality({d \in IngestCalls : HoldsConnection(d)})

\* ------------------------------------------------------------------------
\* Concerns
\* ------------------------------------------------------------------------

\* The rank of the severity of a row, 0 for no row
Sev(row) == IF row.exists THEN SeverityField(row.severity) ELSE 0

Max(a, b) == IF a > b THEN a ELSE b

\* This step is the INSERT ... ON DUPLICATE KEY UPDATE of call c, sent by
\* upsertConcern on the pool or by ingest on its connection
UpsertStepOf(c) ==
  \/ calls[c].kind = "upsertConcern" /\ calls[c].pc = "upsertConcern"
       /\ calls'[c].pc = "readBack"
  \/ calls[c].kind = "ingest" /\ calls[c].pc = "upsertConcern"
       /\ calls'[c].pc = "readConcern"

\* The concern call c is upserting
Incoming(c) == calls[c].opts.concerns[calls[c].i]

\* C12: for every (tenant, concernKey) the stored severity never decreases
\* and after each upsert, by upsertConcern or by ingest, it is the maximum in
\* the order low < medium < high < critical of the severity stored before and
\* the incoming one, whatever the order in which the severities arrive.
C12_SeverityIsMaximum ==
  [][/\ \A t \in Tenants, k \in ConcernKeys : Sev(concerns'[t][k]) >= Sev(concerns[t][k])
     /\ \A c \in CallIds :
          UpsertStepOf(c) =>
            LET t == calls[c].tenantId
                k == Incoming(c).concernKey
            IN Sev(ConcernSeen(c, t, k)') =
                 Max(Sev(ConcernSeen(c, t, k)), SeverityField(Incoming(c).severity))]_vars

\* A concern stored as critical by an ingest was upserted afterwards with
\* severity low by upsertConcern and is still critical
C12_Witness ==
  \E c \in CallIds :
    /\ calls[c].kind = "upsertConcern" /\ HasReturned(c)
    /\ calls[c].opts.concerns[1].severity = "low"
    /\ calls[c].outcome.value.mentionCount >= 2
    /\ concerns["t1"]["k1"].severity = "critical"
    /\ concerns["t1"]["k1"].mentionCount = calls[c].outcome.value.mentionCount

\* C13: an upsert of a concern whose status is resolved, by upsertConcern or
\* by ingest, sets its status to active and its resolvedAt to null in the
\* same write: a resolved concern is reopened by any new mention, and no
\* stored concern has a resolvedAt without being resolved.
C13_UpsertReopensResolved ==
  [][/\ \A c \in CallIds :
          UpsertStepOf(c) =>
            LET t == calls[c].tenantId
                k == Incoming(c).concernKey
                old == ConcernSeen(c, t, k)
                new == ConcernSeen(c, t, k)'
            IN old.exists /\ old.status = "resolved"
                 => new.status = "active" /\ new.resolvedAt = <<>>
     /\ \A t \in Tenants, k \in ConcernKeys :
          concerns'[t][k].exists
            => (concerns'[t][k].status = "resolved" <=> concerns'[t][k].resolvedAt # <<>>)]_vars

\* The one call made so far, an ingest, has committed a mention of the
\* concern that was stored as resolved: the concern is active again
C13_Witness ==
  \E c \in CallIds :
    /\ calls[c].kind = "ingest" /\ HasReturned(c) /\ Started = 1
    /\ concerns["t1"]["k1"].evidence[1].source = "seed"
    /\ concerns["t1"]["k1"].mentionCount = 2
    /\ concerns["t1"]["k1"].status = "active"
    /\ concerns["t1"]["k1"].resolvedAt = <<>>

\* The evidence entry an upsert of concern cn adds
EvidenceOf(cn) == [text |-> cn.evidenceText, source |-> cn.source]

\* The evidence list of a row, empty for no row
Evidence(row) == IF row.exists THEN row.evidence ELSE <<>>

Mentions(row) == IF row.exists THEN row.mentionCount ELSE 0

IsPrefix(s, t) == Len(s) <= Len(t) /\ SubSeq(t, 1, Len(s)) = s

\* C14: every upsert of a (tenant, concernKey), by upsertConcern or by
\* ingest, under any interleaving, adds one to mentionCount and appends its
\* entry to the evidence list, so that after n committed upserts the concern
\* has mentionCount n and n evidence entries in the order the upserts were
\* applied; no operation removes or rewrites an existing entry, and
\* mentionCount equals the evidence length in every reachable state.
C14_MentionsAreEvidence ==
  [][/\ \A c \in CallIds :
          UpsertStepOf(c) =>
            LET t == calls[c].tenantId
                k == Incoming(c).concernKey
                old == ConcernSeen(c, t, k)
                new == ConcernSeen(c, t, k)'
            IN /\ new.exists
               /\ new.evidence = Append(Evidence(old), EvidenceOf(Incoming(c)))
               /\ new.mentionCount = Mentions(old) + 1
     /\ \A t \in Tenants, k \in ConcernKeys :
          /\ IsPrefix(Evidence(concerns[t][k]), Evidence(concerns'[t][k]))
          /\ Mentions(concerns'[t][k]) = Len(Evidence(concerns'[t][k]))
          /\ \A c \in CallIds :
               Mentions(ConcernSeen(c, t, k)') = Len(Evidence(ConcernSeen(c, t, k)'))]_vars

\* Three upserts of the same key were committed on an empty table, by
\* upsertConcern of caller A, by an ingest of caller B and by upsertConcern of
\* caller A again: three mentions and the three entries in that order
C14_Witness ==
  /\ calls["A"].kind = "upsertConcern" /\ HasReturned("A")
  /\ calls["B"].kind = "ingest" /\ HasReturned("B")
  /\ concerns["t1"]["k1"].exists
  /\ concerns["t1"]["k1"].mentionCount = 3
  /\ [i \in 1..3 |-> concerns["t1"]["k1"].evidence[i].source] = <<"A", "B", "A">>
  /\ calls["A"].outcome.value.mentionCount = 3

\* This step ends the updateConcernStatus call of c
StatusStepOf(c) ==
  calls[c].kind = "updateConcernStatus" /\ calls[c].pc = "updateStatus" /\ calls'[c].pc = "done"

\* C15: updateConcernStatus with status resolved sets the status of the
\* concern to resolved and its resolvedAt to a time; with improving or
\* escalated it sets that status and resolvedAt to null; with any other status
\* (active included) or for a key that is not stored it changes no row and
\* returns updated = 0, and it raises nothing but a failure of the store.
C15_StatusUpdate ==
  [][\A c \in CallIds :
       StatusStepOf(c) =>
         LET t == calls[c].tenantId
             k == calls[c].opts.concernKey
             status == calls[c].opts.status
             old == concerns[t][k]
             new == concerns'[t][k]
             out == calls'[c].outcome
         IN /\ \A t2 \in Tenants, k2 \in ConcernKeys :
                 <<t2, k2>> # <<t, k>> => concerns'[t2][k2] = concerns[t2][k2]
            /\ out.status = "thrown" => faults' = faults + 1 /\ new = old
            /\ status \notin {"resolved", "improving", "escalated"}
                 => out = [status |-> "returned", value |-> [updated |-> 0]] /\ new = old
            /\ ~old.exists /\ out.status = "returned"
                 => out.value = [updated |-> 0] /\ new = old
            /\ old.exists /\ out.status = "returned" /\ status = "resolved"
                 => /\ out.value = [updated |-> 1]
                    /\ new.resolvedAt # <<>>
                    /\ new = [old EXCEPT !.status = "resolved", !.resolvedAt = new.resolvedAt]
            /\ old.exists /\ out.status = "returned" /\ status \in {"improving", "escalated"}
                 => /\ out.value = [updated |-> 1]
                    /\ new = [old EXCEPT !.status = status, !.resolvedAt = <<>>]]_vars

\* A concern upserted on an empty table was resolved by caller A, and
\* afterwards caller B's updateConcernStatus with status active returned
\* updated = 0 and left it resolved; or it was reopened as improving by B
C15_Witness ==
  /\ calls["A"].kind = "updateConcernStatus" /\ HasReturned("A")
  /\ calls["A"].opts.status = "resolved" /\ calls["A"].outcome.value.updated = 1
  /\ calls["B"].kind = "updateConcernStatus" /\ HasReturned("B")
  /\ calls["B"].opts.concernKey = "k1"
  /\ concerns["t1"]["k1"].exists
  /\ concerns["t1"]["k1"].evidence[1].source # "seed"
  /\ \/ /\ calls["B"].opts.status = "active"
        /\ calls["B"].outcome.value.updated = 0
        /\ concerns["t1"]["k1"].status = "resolved"
        /\ concerns["t1"]["k1"].resolvedAt # <<>>
     \/ /\ calls["B"].opts.status = "improving"
        /\ calls["B"].outcome.value.updated = 1
        /\ concerns["t1"]["k1"].status = "improving"
        /\ concerns["t1"]["k1"].resolvedAt = <<>>

\* ------------------------------------------------------------------------
\* Medical facts
\* ------------------------------------------------------------------------

\* The medical_facts list stored for tenant t
StoredFacts(t) ==
  IF profiles[t].exists /\ "medical_facts" \in DOMAIN profiles[t].data
  THEN profiles[t].data["medical_facts"] ELSE <<>>

\* This step is the commit of an ingest of c whose profileUpdates carries a
\* medical_facts list
CommitsFacts(c) ==
  /\ calls[c].kind = "ingest" /\ calls[c].pc = "commit"
  /\ calls'[c].pc = "done" /\ calls'[c].outcome.status = "returned"
  /\ calls[c].opts.profileUpdates.given
  /\ "medical_facts" \in DOMAIN calls[c].opts.profileUpdates.doc

IncomingFacts(c) == calls[c].opts.profileUpdates.doc["medical_facts"]

\* C16: the stored medical_facts list only grows through ingest: for every
\* committed ingest whose profileUpdates carries a medical_facts list of any
\* length, the empty list included, the facts stored before the call are
\* still stored after it in the same order, with the new facts after them.
C16_FactsOnlyGrow ==
  [][\A c \in CallIds :
       CommitsFacts(c) =>
         IsPrefix(StoredFacts(calls[c].tenantId), StoredFacts(calls[c].tenantId)')]_vars

\* C18: for ingest calls that do not overlap, on a tenant with nothing
\* stored, each carrying a medical_facts list, the k-th call that succeeds
\* returns profile.newVersion = k, the version it stores, and the stored
\* medical_facts is the left fold of mergeMedicalFacts over the incoming
\* lists: each commit stores mergeMedicalFacts(stored before, incoming).
C18_SequentialIngestsFold ==
  [][\A c \in CallIds :
       CommitsFacts(c) /\ start = EmptyStore =>
         LET t == calls[c].tenantId IN
         /\ StoredVersion(t)' = StoredVersion(t) + 1
         /\ calls'[c].outcome.value["profile"].newVersion = StoredVersion(t)'
         /\ StoredFacts(t)' = mergeMedicalFacts(StoredFacts(t), IncomingFacts(c))]_vars

\* The incoming entries from..Len(incoming) that no entry of earlier and no
\* incoming entry before them equals in text (and, if nonEmpty, that have a
\* text), in input order
RECURSIVE Appended(_, _, _, _)
Appended(earlier, incoming, j, nonEmpty) ==
  IF j > Len(incoming) THEN <<>>
  ELSE LET text == FactText(incoming[j])
           fresh == /\ \A x \in 1..Len(earlier) : FactText(earlier[x]) # text
                    /\ \A x \in 1..(j - 1) : FactText(incoming[x]) # text
                    /\ nonEmpty => text # ""
       IN (IF fresh THEN <<incoming[j]>> ELSE <<>>)
            \o Appended(earlier, incoming, j + 1, nonEmpty)

\* The callers of mergeMedicalFacts
MergeCalls == {c \in CallIds : calls[c].kind = "mergeMedicalFacts"}

\* C17 as stated: mergeMedicalFacts(existing, incoming) is existing in its
\* order followed, in input order, by exactly the incoming facts whose text
\* equals no earlier entry's text, and merging incoming into the result once
\* more gives the same list.
C17_MergeAppendsUnseen ==
  \A c \in MergeCalls :
    LET e == calls[c].opts.existing
        i == calls[c].opts.incoming
    IN /\ calls[c].pc = "mergeAgain"
            => calls[c].updates["medical_facts"] = e \o Appended(e, i, 1, FALSE)
       /\ HasReturned(c) => calls[c].outcome.value = e \o Appended(e, i, 1, FALSE)

\* C17 amended: mergeMedicalFacts(existing, incoming) is existing in its
\* order followed, in input order, by exactly the incoming facts that have a
\* non-empty text equal to no earlier entry's text; an incoming entry without
\* text is left out. Merging incoming into the result once more gives the
\* same list.
C17_MergeAppendsUnseenWithText ==
  \A c \in MergeCalls :
    LET e == calls[c].opts.existing
        i == calls[c].opts.incoming
    IN /\ calls[c].pc = "mergeAgain"
            => calls[c].updates["medical_facts"] = e \o Appended(e, i, 1, TRUE)
       /\ HasReturned(c) => calls[c].outcome.value = e \o Appended(e, i, 1, TRUE)

\* [A] was merged twice with [{}, B], whose first entry has no text: the
\* result is [A, B]
C17_Witness ==
  \E c \in MergeCalls :
    /\ HasReturned(c)
    /\ calls[c].opts.existing = <<Fact("A")>>
    /\ calls[c].opts.incoming = <<[fact |-> Undef, text |-> Undef], Fact("B")>>
    /\ calls[c].outcome.value = <<Fact("A"), Fact("B")>>

\* ------------------------------------------------------------------------
\* Render
\* ------------------------------------------------------------------------

\* This step ends the transaction of call c
EndsTransaction(c) == txs[c].open /\ ~txs'[c].open

\* This step is the commit of call c
Commits(c) ==
  /\ calls[c].kind = "ingest" /\ calls[c].pc = "commit"
  /\ calls'[c].pc = "done" /\ calls'[c].outcome.status = "returned"

\* The content shows the profile row, the episode and the concern row
ShowsProfile(content, row) ==
  /\ content.medical_facts = ArraySection(row.data, "medical_facts")
  /\ content.baby_snapshot = ObjectSection(row.data, "baby_snapshot")

ShowsEpisode(content, e) ==
  \E i \in 1..Len(content.episodes) :
    content.episodes[i] = [channel |-> e.channel, text |-> truncate(e.content, TruncateMax)]

ShowsConcern(content, row) ==
  \E i \in 1..Len(content.concerns) :
    /\ content.concerns[i].displayName = row.displayName
    /\ content.concerns[i].severity = row.severity
    /\ content.concerns[i].mentionCount = row.mentionCount

\* C19: when an ingest with render enabled commits, the artifact content it
\* wrote was compiled from a state that includes the profile update, the
\* inserted episode and the concern upserts of that same call, and the
\* artifact write is committed with them or rolled back with them.
C19_RenderSeesOwnWrites ==
  [][\A c \in CallIds :
       LET t == calls[c].tenantId
           tx == txs[c]
       IN /\ Commits(c) /\ calls[c].opts.render /\ tx.file.written =>
               /\ HasProfileUpdates(calls[c].opts) =>
                    tx.profile.written /\ ShowsProfile(tx.file.row, tx.profile.row)
               /\ calls[c].opts.episode.given => tx.episodes # {}
               /\ \A e \in tx.episodes : ShowsEpisode(tx.file.row, e)
               /\ \A i \in 1..Len(calls[c].opts.concerns) :
                    calls[c].opts.concerns[i].concernKey \in DOMAIN tx.concerns
               /\ \A k \in DOMAIN tx.concerns : ShowsConcern(tx.file.row, tx.concerns[k])
               /\ calls'[c].outcome.value["render"] = [rendered |-> TRUE]
               /\ files'[t] = [exists |-> TRUE, content |-> tx.file.row]
               /\ tx.profile.written => profiles'[t] = tx.profile.row
               /\ tx.episodes \subseteq episodes'
               /\ \A k \in DOMAIN tx.concerns : concerns'[t][k] = tx.concerns[k]
          /\ EndsTransaction(c) /\ ~Commits(c) => store' = store
          /\ ~EndsTransaction(c) => store' = store \/ \E d \in CallIds \ {c} : Commits(d)]_vars

\* One call has committed its profile update, episode, concern upsert and
\* the artifact that shows them, after the other call threw and left
\* nothing
C19_Witness ==
  \E c \in CallIds, d \in CallIds :
    /\ HasReturned(c) /\ HasThrown(d)
    /\ calls[c].outcome.value["render"] = [rendered |-> TRUE]
    /\ files["t1"].exists
    /\ ShowsProfile(files["t1"].content, profiles["t1"])
    /\ c \in StoredFactTexts("t1")
    /\ \E e \in episodes : e.content = <<c>> /\ ShowsEpisode(files["t1"].content, e)
    /\ ShowsConcern(files["t1"].content, concerns["t1"]["k1"])
    /\ concerns["t1"]["k1"].evidence[Len(concerns["t1"]["k1"].evidence)].source = c
    /\ ~Marked(d)

\* ------------------------------------------------------------------------
\* upsertProfile: version conflicts
\* ------------------------------------------------------------------------

\* C20: a version conflict in upsertProfile is never raised as an error: a
\* call whose conditional update matched no row re-reads the profile and
\* retries once with the fresh version, and when the retry matches no row
\* either it returns updated = false and has written nothing.
C20_ConflictNeverRaised ==
  [][\A c \in UpsertCalls :
       LET f == calls[c]
           g == calls'[c]
       IN /\ g.pc = "done" => g.outcome.status = "returned"
          /\ f.pc = "retryUpdate" /\ g.pc = "done"
               => \/ g.outcome.value.updated /\ profiles' # profiles
                  \/ ~g.outcome.value.updated /\ profiles' = profiles]_vars

\* ------------------------------------------------------------------------
\* Profile documents
\* ------------------------------------------------------------------------

\* This step is a statement of call c that wrote the profile row
WritesProfile(c) ==
  /\ calls[c].pc \in {"writeProfile", "upsert", "insertFresh", "retryUpdate"}
  /\ calls'[c] # calls[c]
  /\ ProfileSeen(c, calls[c].tenantId)' # ProfileSeen(c, calls[c].tenantId)

\* The document of a row, empty for no row
DataOf(row) == IF row.exists THEN row.data ELSE EmptyDoc

\* The top-level keys the claim speaks of: all but medical_facts under ingest
PatchKeys(c, old, u) ==
  (DOMAIN DataOf(old) \cup DOMAIN u)
    \ (IF calls[c].kind = "ingest" THEN {"medical_facts"} ELSE {})

C22_OnlyAllowedKeysStored ==
  \A t \in Tenants :
    profiles[t].exists => DOMAIN profiles[t].data \subseteq AllowedProfileKeys

\* ------------------------------------------------------------------------
\* Interleaved concern and episode writes
\* ------------------------------------------------------------------------

\* The number of concerns of call c that have key k
UpsertsOf(c, k) ==
  Cardinality({i \in 1..Len(calls[c].opts.concerns) : calls[c].opts.concerns[i].concernKey = k})

\* Every step leaves the committed concern rows as they are, but a commit,
\* which adds to each key the upserts of its call: the mentionCount of a key
\* counts the upserts applied to it
MentionsCountUpserts ==
  \A t \in Tenants, k \in ConcernKeys :
    \/ \E c \in CallIds :
         /\ Commits(c) /\ calls[c].tenantId = t
         /\ Mentions(concerns'[t][k]) = Mentions(concerns[t][k]) + UpsertsOf(c, k)
         /\ Len(Evidence(concerns'[t][k])) = Mentions(concerns'[t][k])
    \/ concerns'[t][k] = concerns[t][k]

\* C23 as stated: concurrent ingest calls for one tenant that carry no
\* profileUpdates tolerate interleaving on concern and episode rows: whatever
\* keys they upsert in whatever order, every call commits, and the
\* mentionCount of each key is the number of upserts applied to it.
C23_EveryCallCommits ==
  [][/\ MentionsCountUpserts
     /\ \A c \in CallIds : calls'[c].pc = "done" => calls'[c].outcome.status = "returned"]_vars

\* C23 amended: such calls either commit or, when they upsert the same keys
\* in different orders, fail with the deadlock error after the one retry,
\* having written nothing; the mentionCount of each key is the number of
\* upserts applied to it by the calls that committed.
C23_CommitsOrDeadlocks ==
  [][/\ MentionsCountUpserts
     /\ \A c \in CallIds :
          calls[c].pc # "done" /\ calls'[c].pc = "done" =>
            \/ Commits(c)
            \/ /\ calls'[c].outcome.status = "thrown"
               /\ calls'[c].outcome.error.errno = ErDeadlock
               /\ calls[c].retryCount = 1
               /\ store' = store]_vars

\* A call that upserts k2 then k1 has thrown the deadlock error of its
\* second attempt, next to calls upserting k1 then k2 that committed; the
\* counts are those of the committed calls
C23_Witness ==
  \E c \in CallIds, d \in CallIds :
    /\ HasThrown(c) /\ calls[c].outcome.error.errno = ErDeadlock
    /\ calls[c].opts.concerns[1].concernKey = "k2"
    /\ HasReturned(d) /\ calls[d].callNo = 2
    /\ start = EmptyStore
    /\ concerns["t1"]["k1"].mentionCount = 2
    /\ concerns["t1"]["k2"].mentionCount = 2
    /\ \A i \in 1..2 : concerns["t1"]["k2"].evidence[i].source = d

\* The number of concerns of call c among its first i that have the key of
\* the i-th
UpsertsUpTo(c, i) ==
  Cardinality({j \in 1..i :
    calls[c].opts.concerns[j].concernKey = calls[c].opts.concerns[i].concernKey})

\* C24: ingest upserts the supplied concerns in array order and returns
\* exactly one {id, mentionCount} per input concern in the same order, where
\* the i-th mentionCount is the count of the concern right after the i-th
\* upsert of this call, so that a key repeated within one call yields
\* consecutive counts.
C24_ResultsFollowUpserts ==
  [][\A c \in CallIds :
       LET f == calls[c]
           t == f.tenantId
       IN /\ UpsertStepOf(c) /\ f.kind = "ingest" =>
               /\ f.i = Len(f.concernResults) + 1
               /\ Mentions(txs'[c].concerns[Incoming(c).concernKey])
                    = Mentions(concerns[t][Incoming(c).concernKey]) + UpsertsUpTo(c, f.i)
          /\ Commits(c) /\ Len(f.opts.concerns) > 0 =>
               LET res == calls'[c].outcome.value["concerns"]
               IN /\ Len(res) = Len(f.opts.concerns)
                  /\ \A i \in 1..Len(res) :
                       LET k == f.opts.concerns[i].concernKey
                       IN /\ res[i].mentionCount = Mentions(concerns[t][k]) + UpsertsUpTo(c, i)
                          /\ res[i].id = concerns'[t][k].id]_vars

\* A call that upserted k1 twice on a store where k1 had one mention has
\* returned the counts 2 and 3 with the id of the row
C24_Witness ==
  \E c \in CallIds :
    /\ HasReturned(c)
    /\ start = SeededStore
    /\ calls[c].opts.concerns[1].concernKey = "k1"
    /\ calls[c].opts.concerns[2].concernKey = "k1"
    /\ calls[c].outcome.value["concerns"] =
         <<[id |-> 1, mentionCount |-> 2], [id |-> 1, mentionCount |-> 3]>>

\* ------------------------------------------------------------------------
\* The parts of ingest
\* ------------------------------------------------------------------------

\* The fields of the result of an ingest with options o whose parts all ran
PartsOf(o) ==
  (IF HasProfileUpdates(o) THEN {"profile"} ELSE {})
    \cup (IF o.episode.given THEN {"episode"} ELSE {})
    \cup (IF Len(o.concerns) > 0 THEN {"concerns"} ELSE {})
    \cup (IF o.render THEN {"render"} ELSE {})

\* C25: ingest changes only what was requested: with profileUpdates absent
\* or an empty object the profile's data and version are unchanged and no
\* profile lock is taken; with no episode no episode is added; with concerns
\* absent or empty no concern row changes; with render false the rendered
\* artifact is unchanged; and the result has a profile, episode, concerns or
\* render field exactly for the parts that were performed.
C25_OnlyRequestedParts ==
  [][\A c \in CallIds :
       LET f == calls[c]
           o == f.opts
       IN /\ ~HasProfileUpdates(o) =>
               /\ txs'[c].locks \cap {ProfileLock(f.tenantId), GapLock(f.tenantId)} = {}
               /\ Commits(c) => profiles' = profiles
          /\ ~o.episode.given /\ Commits(c) => episodes' = episodes
          /\ Len(o.concerns) = 0 /\ Commits(c) => concerns' = concerns
          /\ ~o.render /\ Commits(c) => files' = files
          /\ Commits(c) => DOMAIN calls'[c].outcome.value = PartsOf(o)
          /\ (\A d \in CallIds : ~Commits(d)) => store' = store]_vars

\* An ingest with profileUpdates {} and render false and nothing else has
\* returned an empty result next to the other call, which did every part
C25_Witness ==
  /\ HasReturned("A") /\ HasReturned("B")
  /\ calls["B"].tenantId = "t1" /\ calls["B"].opts = FullOpts("B")
  /\ DOMAIN calls["B"].outcome.value = {"profile", "episode", "concerns", "render"}
  /\ calls["A"].opts.profileUpdates = Updates(EmptyDoc)
  /\ DOMAIN calls["A"].outcome.value = {}
  /\ start = SeededStore
  /\ profiles["t1"].version = SeedProfile.version + 1

\* ------------------------------------------------------------------------
\* Tenants
\* ------------------------------------------------------------------------

\* What the store holds for tenant u
TenantData(u) ==
  <<profiles[u], {e \in episodes : e.tenantId = u}, concerns[u], files[u]>>

\* The step of call c leaves what the store holds for the other tenants
OtherTenantsUnchanged(c) ==
  \A u \in Tenants \ {calls[c].tenantId} : TenantData(u)' = TenantData(u)

\* C26: every operation on tenant T leaves the profile, episodes, concerns
\* and rendered artifact of every other tenant unchanged, and an ingest for T
\* never waits for a lock held by an ingest for a different tenant.
C26_TenantsIsolated ==
  [][\A c \in CallIds :
       /\ calls'[c] # calls[c] => OtherTenantsUnchanged(c)
       /\ txs[c].waiting =>
            \A d \in Blockers(c) : calls[d].tenantId = calls[c].tenantId]_vars

\* ------------------------------------------------------------------------
\* The episode log
\* ------------------------------------------------------------------------

\* This step is the INSERT of insertEpisode of call c
InsertsEpisode(c) ==
  calls[c].kind = "insertEpisode" /\ calls[c].pc = "insert" /\ calls'[c].pc = "done"

\* This step commits an episode of call c
AddsEpisode(c) == InsertsEpisode(c) \/ (Commits(c) /\ calls[c].opts.episode.given)

\* The ids of the committed episodes
EpisodeIds == {e.id : e \in episodes}

\* C27 as stated: the committed episode log is append-only: each committed
\* ingest that supplies an episode and each insertEpisode adds exactly one
\* episode with a new id greater than every previously committed id of the
\* store, and no operation deletes a committed episode or changes its
\* fields.
C27_EpisodeIdsIncrease ==
  [][/\ episodes \subseteq episodes'
     /\ (\A c \in CallIds : ~AddsEpisode(c)) => episodes' = episodes
     /\ \A c \in CallIds :
          AddsEpisode(c) =>
            \E e \in episodes' :
              /\ episodes' = episodes \cup {e}
              /\ e.tenantId = calls[c].tenantId
              /\ e.content = calls[c].opts.episode.content
              /\ \A id \in EpisodeIds : e.id > id]_vars

\* C27 amended: the same, with an id that no committed episode carries: the
\* ids follow the order of the INSERT statements, not of the commits, so the
\* new id can be smaller than one committed before.
C27_EpisodeLogAppendOnly ==
  [][/\ episodes \subseteq episodes'
     /\ (\A c \in CallIds : ~AddsEpisode(c)) => episodes' = episodes
     /\ \A c \in CallIds :
          AddsEpisode(c) =>
            \E e \in episodes' :
              /\ episodes' = episodes \cup {e}
              /\ e.tenantId = calls[c].tenantId
              /\ e.content = calls[c].opts.episode.content
              /\ e.id \notin EpisodeIds]_vars

\* Three calls have committed an episode each: an ingest of caller A holds
\* the first id, the second call of caller B, an ingest, the third
C27_Witness ==
  /\ HasReturned("A") /\ HasReturned("B")
  /\ calls["A"].kind = "ingest" /\ calls["A"].opts.episode.given
  /\ calls["A"].outcome.value["episode"].id = start.autoInc.episodes
  /\ calls["B"].kind = "ingest" /\ calls["B"].opts.episode.given /\ calls["B"].callNo = 2
  /\ calls["B"].outcome.value["episode"].id = start.autoInc.episodes + 2
  /\ Cardinality(episodes) = Cardinality(start.episodes) + 3

\* ------------------------------------------------------------------------
\* Nothing to render
\* ------------------------------------------------------------------------

\* Tenant t has no profile row, no concern in status active, improving or
\* escalated and no episode that is not superseded
NothingStored(t) ==
  /\ ~profiles[t].exists
  /\ \A k \in ConcernKeys :
       concerns[t][k].exists => concerns[t][k].status \notin {"active", "improving", "escalated"}
  /\ \A e \in episodes : e.tenantId = t => e.isSuperseded

\* Call c is a renderMemoryFile or an ingest that writes nothing
RendersOnly(c) ==
  \/ calls[c].kind = "renderMemoryFile"
  \/ calls[c].kind = "ingest" /\ calls[c].opts = NoOpts

\* What the result of call c says of the render
Rendered(f) ==
  IF f.kind = "ingest" THEN f.outcome.value["render"].rendered ELSE f.outcome.value.rendered

\* C28: for a tenant with no profile row, no concern in status active,
\* improving or escalated and no non-superseded episode, renderMemoryFile and
\* an ingest that writes nothing both return rendered: false and write no
\* artifact; an existing artifact is left as it is.
C28_NothingToRender ==
  [][\A c \in CallIds :
       /\ RendersOnly(c) /\ NothingStored(calls[c].tenantId)'
            => files'[calls[c].tenantId] = files[calls[c].tenantId]
       /\ RendersOnly(c) /\ NothingStored(calls[c].tenantId)'
          /\ calls[c].pc # "done" /\ calls'[c].pc = "done"
            => /\ calls'[c].outcome.status = "returned"
               /\ ~Rendered(calls'[c])]_vars

\* Both a renderMemoryFile and an ingest of nothing have returned
\* rendered: false for a tenant that has an artifact and one resolved
\* concern, and the artifact is the one there was
C28_Witness ==
  /\ start = ResolvedStore /\ NothingStored("t1")
  /\ HasReturned("A") /\ calls["A"].kind = "renderMemoryFile" /\ ~Rendered(calls["A"])
  /\ HasReturned("B") /\ calls["B"].kind = "ingest" /\ calls["B"].opts = NoOpts
  /\ ~Rendered(calls["B"])
  /\ files["t1"] = ResolvedStore.files["t1"]

\* ------------------------------------------------------------------------
\* The compiled view
\* ------------------------------------------------------------------------

\* Call c has returned from assembleMemoryMarkdown
Compiled(c) == calls[c].kind = "assembleMemoryMarkdown" /\ HasReturned(c)

\* The profile is absent or its document has no member
AbsentOrEmpty(profile) == ~profile.exists \/ DOMAIN profile.data = {}

\* C29: the view compiler returns null exactly when the profile is absent or
\* empty and the concern list and the episode list are both empty; for
\* every other input it returns a document.
C29_NullIffNothingToShow ==
  \A c \in CallIds :
    Compiled(c) =>
      (~calls[c].outcome.value.exists
         <=> /\ AbsentOrEmpty(calls[c].opts.profile)
             /\ Len(calls[c].opts.concernRows) = 0
             /\ Len(calls[c].opts.episodeRows) = 0)

\* C30: in the compiled view every episode whose content has more than 100
\* characters is rendered as its first 100 characters followed by the
\* 3-character marker "...", and every episode whose content has at most 100
\* characters is rendered in full with no marker added (a character being
\* one element of the string, as its length counts them).
C30_EpisodesTruncatedAt100 ==
  \A c \in CallIds :
    Compiled(c) /\ calls[c].outcome.value.exists =>
      LET rows == calls[c].opts.episodeRows
          shown == calls[c].outcome.value.episodes
      IN /\ Len(shown) = Len(rows)
         /\ \A i \in 1..Len(rows) :
              IF Len(rows[i].content) > 100
              THEN /\ Len(shown[i].text) = 103
                   /\ SubSeq(shown[i].text, 1, 100) = SubSeq(rows[i].content, 1, 100)
                   /\ SubSeq(shown[i].text, 101, 103) = <<".", ".", ".">>
              ELSE shown[i].text = rows[i].content

\* A view of two episodes was compiled, one of 101 characters shown as 103
\* and one of exactly 100 dots shown as it is
C30_Witness ==
  \E c \in CallIds :
    /\ Compiled(c) /\ calls[c].outcome.value.exists
    /\ Len(calls[c].opts.episodeRows) = 2
    /\ Len(calls[c].opts.episodeRows[1].content) = 101
    /\ Len(calls[c].outcome.value.episodes[1].text) = 103
    /\ calls[c].opts.episodeRows[2].content = [i \in 1..100 |-> "."]
    /\ calls[c].outcome.value.episodes[2].text = [i \in 1..100 |-> "."]

\* ------------------------------------------------------------------------
\* The ingest-raw entry point
\* ------------------------------------------------------------------------

\* C31: for every ingest-raw request that passes validation, ingest is
\* invoked exactly once: with the extracted data and a source on every
\* concern when extraction succeeds, or with a single raw-content episode and
\* no profileUpdates or concerns when extraction throws; a failure of ingest
\* is answered with an error and is never followed by a second ingest call;
\* a request that fails validation invokes neither extraction nor ingest.
C31_IngestOncePerValidRequest ==
  \A c \in CallIds :
    LET f == calls[c]
        r == f.request
    IN r.path = "postIngestRaw" =>
         /\ r.ingestCalls <= 1 /\ r.extractCalls <= 1
         /\ FailsValidation(r.body) =>
              r.ingestCalls = 0 /\ r.extractCalls = 0 /\ r.status \in {0, 400}
         /\ r.status = 400 => FailsValidation(r.body)
         /\ r.status \in {200, 500} =>
              /\ r.ingestCalls = 1 /\ f.pc = "done"
              /\ r.status = 200 <=> f.outcome.status = "returned"
         /\ r.ingestCalls = 1 =>
              /\ f.kind = "ingest" /\ r.extractCalls = 1
              /\ f.tenantId = r.body.tenantId
              /\ f.opts.episode.given
              /\ IF r.extractionFailed
                 THEN /\ f.opts.episode.content = buildFallbackContent(r.body)
                      /\ ~f.opts.profileUpdates.given
                      /\ Len(f.opts.concerns) = 0
                 ELSE /\ f.opts.episode.content = r.extraction.episodeSummary
                      /\ f.opts.profileUpdates.doc
                           = normalizeProfileUpdates(r.extraction.profileUpdates)
                      /\ Len(f.opts.concerns) = Len(r.extraction.concerns)
                      /\ \A i \in 1..Len(f.opts.concerns) :
                           /\ f.opts.concerns[i].source = SourceOf(r.body)
                           /\ f.opts.concerns[i].concernKey = r.extraction.concerns[i].concernKey

\* The ingest of the extracted data of request A, a concern with the source
\* of the body among them, has failed and was answered with 500 after its one
\* ingest call; request B, whose extraction threw, was answered with 200
C31_Witness ==
  /\ calls["A"].request.path = "postIngestRaw" /\ calls["A"].request.status = 500
  /\ ~calls["A"].request.extractionFailed /\ calls["A"].request.ingestCalls = 1
  /\ Len(calls["A"].opts.concerns) = 1 /\ calls["A"].opts.concerns[1].source = "app"
  /\ calls["B"].request.path = "postIngestRaw" /\ calls["B"].request.status = 200
  /\ calls["B"].request.extractionFailed /\ calls["B"].request.ingestCalls = 1

\* ------------------------------------------------------------------------
\* Reported profile versions
\* ------------------------------------------------------------------------

\* This step is the statement of upsertProfile of call c that writes, or the
\* commit of the ingest c, after which the call has returned
ReturnsFromWrite(c) ==
  /\ calls[c].kind \in {"upsertProfile", "ingest"}
  /\ calls[c].pc # "done" /\ calls'[c].pc = "done"
  /\ calls'[c].outcome.status = "returned"

\* The profile result of the returned call
ProfileResult(f) ==
  IF f.kind = "ingest"
  THEN (IF "profile" \in DOMAIN f.outcome.value THEN f.outcome.value["profile"]
        ELSE [updated |-> FALSE, newVersion |-> 0])
  ELSE f.outcome.value

\* C32: whenever upsertProfile or ingest returns a profile result
\* {updated: true, newVersion: n}, the stored version of the tenant right
\* after the write of that call is n: on the conditional-update path, on the
\* expectedVersion = 0 insert-or-merge path, and when two first writers race.
C32_NewVersionIsStored ==
  [][\A c \in CallIds :
       ReturnsFromWrite(c) /\ ProfileResult(calls'[c]).updated =>
         /\ profiles'[calls[c].tenantId].exists
         /\ profiles'[calls[c].tenantId].version = ProfileResult(calls'[c]).newVersion]_vars

\* ------------------------------------------------------------------------
\* The artifact after concurrent ingest calls
\* ------------------------------------------------------------------------

\* The compile of the committed state of tenant t
CompiledView(t) ==
  assembleMemoryMarkdown(profiles[t],
                         ActiveConcernRows({concerns[t][k] : k \in ConcernKeys}),
                         RecentEpisodeRows({e \in episodes : e.tenantId = t}, RenderLimit))

\* C33: after any set of concurrent ingest calls for one tenant, all with
\* render enabled, has completed, the stored rendered artifact equals the
\* compile of the tenant's committed state: its current profile, its
\* concerns in status active, improving or escalated, and its 10 most recent
\* non-superseded episodes.
C33_ArtifactIsCompileOfStore ==
  (\A c \in CallIds :
     /\ calls[c].kind = "ingest" /\ calls[c].pc = "done"
     /\ calls[c].tenantId = "t1" /\ calls[c].opts.render)
    => (CompiledView("t1").exists
          => files["t1"] = [exists |-> TRUE, content |-> CompiledView("t1")])

\* ------------------------------------------------------------------------
\* resolvedAt and status
\* ------------------------------------------------------------------------

\* The concern rows of the store and those written in open transactions
ConcernRowsAnywhere ==
  {concerns[t][k] : t \in Tenants, k \in ConcernKeys}
    \cup UNION {{txs[c].concerns[k] : k \in DOMAIN txs[c].concerns} : c \in CallIds}

\* C34: in every reachable state and for every concern, resolvedAt is
\* non-null if and only if status is resolved, under any sequence and
\* interleaving of upsertConcern, ingest and updateConcernStatus.
C34_ResolvedAtIffResolved ==
  \A row \in ConcernRowsAnywhere :
    row.exists => (row.resolvedAt # <<>> <=> row.status = "resolved")

\* A concern that was stored as resolved has been mentioned again and then
\* resolved again, at a later time
C34_Witness ==
  /\ start = SeededStore
  /\ concerns["t1"]["k1"].mentionCount = 2
  /\ concerns["t1"]["k1"].status = "resolved"
  /\ concerns["t1"]["k1"].resolvedAt # <<>>
  /\ concerns["t1"]["k1"].resolvedAt # SeedConcern.resolvedAt

\* ------------------------------------------------------------------------
\* The count upsertConcern returns
\* ------------------------------------------------------------------------

\* Call c is a first call of its caller, an upsertConcern that has returned
ReturnedFromUpsert(c) == calls[c].kind = "upsertConcern" /\ calls[c].callNo = 1 /\ HasReturned(c)

\* C35: the mentionCount returned by the standalone upsertConcern is the
\* count its own write produced: two upsertConcern calls for the same new
\* key, run one after the other or concurrently, return the two distinct
\* values 1 and 2.
C35_ReturnsOwnCount ==
  (start = EmptyStore /\ ReturnedFromUpsert("A") /\ ReturnedFromUpsert("B"))
    => {calls["A"].outcome.value.mentionCount, calls["B"].outcome.value.mentionCount} = {1, 2}

\* ------------------------------------------------------------------------
\* Termination of concurrent ingest calls
\* ------------------------------------------------------------------------

\* C36: under fair scheduling, with the store breaking every lock cycle by
\* failing one participant with a deadlock error, every ingest call
\* eventually returns or throws, for the same or different tenants and with
\* or without profileUpdates.
C36_EveryIngestEnds ==
  \A c \in CallIds :
    (calls[c].kind = "ingest" /\ calls[c].pc # "done")
      ~> (calls[c].pc = "done" /\ calls[c].outcome.status \in {"returned", "thrown"})

\* Both calls have ended after one of them was the victim of a deadlock
C36_Witness ==
  /\ \A c \in CallIds : calls[c].pc = "done"
  /\ \E c \in CallIds :
       /\ Len(calls[c].log) > 0
       /\ calls[c].log[1].error.errno = ErDeadlock

\* ------------------------------------------------------------------------
\* What an upsert of an existing concern leaves alone
\* ------------------------------------------------------------------------

\* C37: an upsert of an already existing concern, by upsertConcern or by
\* ingest, changes only mentionCount, evidence, severity, lastSeenAt and,
\* when the concern was resolved, status and resolvedAt: id, displayName and
\* firstSeenAt keep their first values, and a status of active, improving or
\* escalated is left unchanged.
C37_UpsertKeepsTheRest ==
  [][\A c \in CallIds :
       UpsertStepOf(c) =>
         LET t == calls[c].tenantId
             k == Incoming(c).concernKey
             old == ConcernSeen(c, t, k)
             new == ConcernSeen(c, t, k)'
         IN old.exists =>
              /\ new.id = old.id
              /\ new.displayName = old.displayName
              /\ new.firstSeenAt = old.firstSeenAt
              /\ old.status # "resolved"
                   => new.status = old.status /\ new.resolvedAt = old.resolvedAt]_vars

\* The concern stored as resolved under the name K1 was escalated by caller A
\* and then upserted by caller B under another name: it is still K1, still
\* escalated, first seen when it was, and mentioned twice
C37_Witness ==
  /\ start = SeededStore /\ Started = 2
  /\ calls["A"].kind = "updateConcernStatus" /\ HasReturned("A")
  /\ calls["B"].kind = "upsertConcern" /\ HasReturned("B")
  /\ calls["B"].opts.concerns[1].displayName # SeedConcern.displayName
  /\ concerns["t1"]["k1"].displayName = SeedConcern.displayName
  /\ concerns["t1"]["k1"].id = SeedConcern.id
  /\ concerns["t1"]["k1"].firstSeenAt = SeedConcern.firstSeenAt
  /\ concerns["t1"]["k1"].status = "escalated"
  /\ concerns["t1"]["k1"].mentionCount = 2
  /\ concerns["t1"]["k1"].lastSeenAt + 1 = clock

\* ------------------------------------------------------------------------
\* No fact is lost by the merge
\* ------------------------------------------------------------------------

\* Every entry of incoming (with a text, if withText) has an entry of the
\* same text in list
FactsRepresented(list, incoming, withText) ==
  \A j \in 1..Len(incoming) :
    (withText => FactText(incoming[j]) # "")
      => \E i \in 1..Len(list) : FactText(list[i]) = FactText(incoming[j])

\* For each ingest that commits a medical_facts list: the merge of the list
\* into the stored one and the list stored by the commit represent every
\* incoming entry (with a text, if withText)
CommittedFactsRepresented(withText) ==
  \A c \in CallIds :
    CommitsFacts(c) =>
      LET t == calls[c].tenantId IN
      /\ FactsRepresented(mergeMedicalFacts(StoredFacts(t), IncomingFacts(c)),
                          IncomingFacts(c), withText)
      /\ FactsRepresented(StoredFacts(t)', IncomingFacts(c), withText)

\* C38 as stated: mergeMedicalFacts loses no incoming entry: for every entry
\* of the incoming list the result contains that entry or an earlier entry
\* with the same text, so every fact submitted to a committed ingest is
\* represented in the stored medical_facts.
C38_NoIncomingEntryLost == [][CommittedFactsRepresented(FALSE)]_vars

\* C38 amended: mergeMedicalFacts loses no incoming entry that has a
\* non-empty text: for every such entry the result contains that entry or an
\* earlier entry with the same text, so every fact with a text submitted to
\* a committed ingest is represented in the stored medical_facts; an entry
\* without text is left out.
C38_NoIncomingFactLost == [][CommittedFactsRepresented(TRUE)]_vars

\* An ingest of [B, {}] has committed on a stored [A]: the stored list is
\* [A, B]
C38_Witness ==
  \E c \in CallIds :
    /\ calls[c].kind = "ingest" /\ HasReturned(c)
    /\ calls[c].opts.profileUpdates.given
    /\ IncomingFacts(c) = <<Fact("B"), [fact |-> Undef, text |-> Undef]>>
    /\ StoredFacts("t1") = <<Fact("A"), Fact("B")>>

====
